---- MODULE Spec2Model ----
(***************************************************************************)
(* State-machine model of the resume / cover-letter generation service     *)
(* (apps/api/app).                                                         *)
(*                                                                         *)
(*   Spec         the request pipeline on the asyncio event loop:          *)
(*                RequestIdMiddleware -> StructuredLoggingMiddleware ->    *)
(*                generate_all -> three tenacity-wrapped stage calls.      *)
(*   SpecMetrics  MetricsRecorder.record_request called from concurrent    *)
(*                threads, at the granularity of its statements.           *)
(*   SpecContext  the two request-context stores (core/observability.py    *)
(*                and core/context.py) used from concurrent tasks.         *)
(***************************************************************************)
EXTENDS Integers, Sequences, FiniteSets, TLC

\* ------------------------------------------------------------------ bounds
\* Largest total_tokens a RequestContext accumulates in SpecContext.
TokenCap == 2

\* Number of concurrent HTTP requests (one asyncio task chain each).
NumRequests == 2

\* Number of threads calling MetricsRecorder.record_request concurrently.
NumThreads == 3

\* ------------------------------------------------------- program constants
\* stop_after_attempt(3)
MaxAttempts == 3

\* wait_exponential(multiplier=1, min=2, max=10); exp_base is the library default
WaitMultiplier == 1

WaitMin == 2

WaitMax == 10

ExpBase == 2

Requests == 1..NumRequests

Threads == 1..NumThreads

\* No task is running on the event loop thread (every task is at an await).
NoTask == 0

\* ContextVar without a value in the current context (ContextVar.get raises LookupError).
Unset == 0

\* The three stage functions, in the order generate_all calls them.
StageNames == <<"extract_payload", "generate_resume_json", "generate_cover_text">>

NumStages == Len(StageNames)

VARIABLES
    \* ---- event loop and middleware chain (Spec)
    pc,            \* pc[r]: where request r is in the middleware / handler chain
    loop,          \* the request whose task holds the event loop thread, or NoTask
    downstream,    \* downstream[r]: what call_next gave the logging middleware
    \* ---- generate_all and the tenacity-wrapped stage call in progress (Spec)
    stage,         \* stage[r]: index of the stage call in progress (0: none yet)
    attempt,       \* attempt[r]: tenacity attempt_number of that call
    hpc,           \* hpc[r]: position inside the stage call
    lastResult,    \* lastResult[r]: outcome of the latest attempt
    callResult,    \* callResult[r]: what the stage call gave generate_all
    sleeps,        \* sleeps[r]: the waits slept by the stage call in progress
    hist,          \* hist[r]: class of each attempt of the stage call in progress
    invoked,       \* invoked[r]: stages whose call has been started
    completed,     \* completed[r]: stages whose call returned a value
    recorded,      \* recorded[r]: statuses passed to record_request for r
    \* ---- llm_client module state (Spec)
    client,        \* _client: "None" or "OpenAI"
    apiKey,        \* whether OPENAI_API_KEY is set in the environment
    \* ---- request context stores (Spec, SpecContext)
    cv,            \* cv[t]: value of observability._request_context in task t
    tok,           \* tok[t]: old value held by the Token of t's set()
    heap,          \* heap[o]: the context object with identity o
    ccv,           \* ccv[t]: value of context._context_var in task t (Unset: default)
    writers,       \* <<t, o>>: task t has written context object o
    observed,      \* <<t, u>>: task t has read an object that task u had written
    \* ---- MetricsRecorder (Spec, SpecMetrics)
    request_counts,\* self._request_counts
    step_stats,    \* self._step_stats
    lock,          \* self._lock: the thread holding it, or 0
    \* ---- threads inside record_request (SpecMetrics)
    tpc,           \* tpc[t]: position of thread t inside record_request
    targ,          \* targ[t]: the arguments of t's call
    tnorm,         \* tnorm[t]: normalized_status
    tread,         \* tread[t]: the count read by the in-place increment
    tsnap,         \* tsnap[t]: the snapshot returned to t
    \* ---- arguments and results of the pure functions (SpecPrune, SpecDate,
    \* ---- SpecText, SpecResume)
    data,          \* _validate_and_clean_json: the argument
    cleaned_data,  \* _validate_and_clean_json: what the call gave
    value,         \* clean_text / normalize_date: the argument
    max_length,    \* clean_text: the argument
    allow_atual,   \* normalize_date: the argument
    text,          \* clean_text / normalize_date: what the call gave
    resume_data,   \* normalize_resume_payload: the argument data
    normalized,    \* normalize_resume_payload: what the first and a second pass gave
    \* ---- pydantic models of core/schemas.py (SpecSchema)
    kwargs,        \* the keyword arguments a model is constructed from
    instance,      \* the model instance, or the ValidationError
    \* ---- generate_cover_text after json.loads (SpecCover)
    cover_data,    \* the provider's JSON object, the language and the candidate name
    cover_letter,  \* what the rest of the try block gave
    \* ---- extract_tech_keywords (SpecKeywords)
    candidates,    \* the arguments
    found,         \* what the call gave
    \* ---- threads inside _get_openai_client (SpecClient)
    gpc,           \* gpc[t]: position of thread t inside _get_openai_client
    got,           \* got[t]: what the call returned to t
    built,         \* the OpenAI instances constructed so far
    \* ---- one tenacity-wrapped stage call and its log (SpecStage)
    call,          \* the stage, the attempt number, the position and the latest outcome
    events         \* the log_event calls made so far, with the attempt that made them

pipeVars == <<pc, loop, downstream, stage, attempt, hpc, lastResult,
              callResult, sleeps, hist, invoked, completed, recorded, client, apiKey>>

ctxVars == <<cv, tok, heap, ccv, writers, observed>>

metricVars == <<request_counts, step_stats, lock>>

threadVars == <<tpc, targ, tnorm, tread, tsnap>>

fnVars == <<data, cleaned_data, value, max_length, allow_atual, text,
            resume_data, normalized>>

callVars == <<kwargs, instance, cover_data, cover_letter, candidates, found,
              gpc, got, built, call, events>>

vars == <<pipeVars, ctxVars, metricVars, threadVars, fnVars, callVars>>

\* ----------------------------------------------------------------- helpers
Max2(a, b) == IF a >= b THEN a ELSE b

Min2(a, b) == IF a <= b THEN a ELSE b

RECURSIVE Pow(_, _)
Pow(b, e) == IF e = 0 THEN 1 ELSE b * Pow(b, e - 1)

\* ------------------------------------------------------------- exceptions
\* An exception object: its class and the message parts passed to it.
Exc(kind, msg) == [kind |-> kind, msg |-> msg]

NoExc == Exc("none", <<>>)

\* A result of running code that may raise: a value returned, or an exception.
Returned(v) == [ok |-> TRUE, value |-> v, err |-> NoExc]

Raised(e) == [ok |-> FALSE, value |-> "none", err |-> e]

Pending == [ok |-> FALSE, value |-> "pending", err |-> NoExc]

\* The exceptions client.chat.completions.create raises that the code names
\* (timeout, rate limit, generic provider error).
ProviderErrors == {"APITimeoutError", "RateLimitError", "APIError"}

\* What the completion text of a response can be, per stage, as far as the
\* stage function distinguishes it.
\*   empty          content is None or ""
\*   non_json       json.loads raises JSONDecodeError
\*   all_empty      a JSON object whose fields are all pruned
\*   bad_date       a JSON object with a date normalize_resume_payload rejects
\*   schema_invalid a JSON object the pydantic model rejects
\*   short_body     a cover letter whose body is missing or under 50 characters
\*   object         a JSON object the stage accepts
Contents(s) ==
    CASE s = 1 -> {"empty", "non_json", "all_empty", "object"}
      [] s = 2 -> {"empty", "non_json", "all_empty", "bad_date", "schema_invalid", "object"}
      [] s = 3 -> {"empty", "non_json", "short_body", "schema_invalid", "object"}

\* The label each stage function gives the failures its `except Exception` wraps.
FailedToLabel(s) ==
    CASE s = 1 -> "Failed to extract payload"
      [] s = 2 -> "Failed to generate resume"
      [] s = 3 -> "Failed to generate cover letter"

InvalidStructureLabel(s) ==
    CASE s = 2 -> "Invalid resume structure"
      [] s = 3 -> "Invalid cover letter structure"

\* _get_openai_client: raises LLMClientError when _client is None and the
\* environment has no OPENAI_API_KEY; otherwise returns the (new or cached) client.
GetClientFails(c, key) == c = "None" /\ ~key

\* The body of the stage function's try block, given the provider's outcome o:
\* the value it reaches `return` with, or the exception raised inside the try.
TryBody(s, c, key, o) ==
    IF GetClientFails(c, key)
    THEN Raised(Exc("LLMClientError", <<"OPENAI_API_KEY environment variable is not set">>))
    ELSE IF o \in ProviderErrors
    THEN Raised(Exc(o, <<o>>))
    ELSE CASE o = "empty" ->
                Raised(Exc("LLMClientError", <<"Empty response from OpenAI">>))
           [] o = "non_json" ->
                Raised(Exc("JSONDecodeError", <<"Expecting value">>))
           [] o = "all_empty" ->
                Raised(Exc("LLMClientError", <<"All fields are empty after cleaning">>))
           [] o = "bad_date" ->
                \* the inner `except ValueError` raises LLMClientError from
                \* inside the outer try
                Raised(Exc("LLMClientError",
                           <<"Failed to normalize resume data", "Invalid date">>))
           [] o = "schema_invalid" ->
                Raised(Exc("ValidationError", <<"validation error">>))
           [] o = "short_body" ->
                Raised(Exc("LLMClientError", <<"Cover letter body is too short or empty">>))
           [] o = "object" ->
                Returned(StageNames[s])

\* A stage function without its except clauses (every exception raised in the
\* try block leaves the function as it is), against which C29 is tested.
NoExceptChain(s, e) == e

\* The except clauses of the stage function, in source order: the exception
\* that leaves the function when e was raised inside its try block.
ExceptChain(s, e) ==
    IF e.kind = "JSONDecodeError"
    THEN Exc("LLMClientError", <<"Invalid JSON response">> \o e.msg)
    ELSE IF e.kind = "ValidationError" /\ s \in {2, 3}
    THEN Exc("LLMClientError", <<InvalidStructureLabel(s)>> \o e.msg)
    ELSE IF e.kind \in ProviderErrors
    THEN e
    ELSE Exc("LLMClientError", <<FailedToLabel(s)>> \o e.msg)

\* One execution of the stage function (one tenacity attempt).
StageAttempt(s, c, key, o) ==
    LET body == TryBody(s, c, key, o)
    IN  IF body.ok THEN body ELSE Raised(ExceptChain(s, body.err))

\* ------------------------------------------------------- tenacity policy
\* retry=retry_if_exception_type((APIError, APITimeoutError, RateLimitError))
RetryableKinds == {"APIError", "APITimeoutError", "RateLimitError"}

\* A retry predicate that accepts every exception (retry_if_exception_type()
\* with its default), against which C2 is tested.
RetryAnyException(res) == ~res.ok

IsRetryable(res) == ~res.ok /\ res.err.kind \in RetryableKinds

\* stop_after_attempt(2), against which C1 is tested.
StopAfterTwo(n) == n >= 2

\* stop=stop_after_attempt(3)
ShouldStop(n) == n >= MaxAttempts

\* wait=wait_exponential(multiplier=1, min=2, max=10): the wait after attempt n,
\* max(max(0, min), min(multiplier * exp_base ** (n - 1), max)).
wait_exponential(n) ==
    Max2(Max2(0, WaitMin), Min2(WaitMultiplier * Pow(ExpBase, n - 1), WaitMax))

\* reraise=False: tenacity raises RetryError around the last attempt, against
\* which C3 is tested.
RaiseRetryError(e) == Exc("RetryError", e.msg)

\* reraise=True: when the attempts are used up the last attempt's own
\* exception is raised, not tenacity.RetryError.
Reraise(e) == e

\* --------------------------------------------- core/observability.py store
\* Measured duration_ms of a successful stage call (wall-clock, an input).
Durations == {1}

EmptyDict == [k \in {} |-> 0]

\* The dict set_request_context builds.  Keys that update_request_context or
\* record_llm_usage add later are absent at first: "None" / 0 / the empty dict.
NewContext(rid) ==
    [kind |-> "dict", request_id |-> rid, method |-> "POST", path |-> "/v1/generate",
     handler |-> "None", llm_usage |-> EmptyDict, status_code |-> 0, outcome |-> "None"]

\* _request_context.get() in task t: the object it yields (Unset: LookupError).
CurrentContext(t) == cv[t]

\* update_request_context(handler=h): merged into the active context, a no-op
\* when there is none.
WithHandler(h, t, name) ==
    IF CurrentContext(t) = Unset THEN h
    ELSE [h EXCEPT ![CurrentContext(t)].handler = name]

\* update_request_context(status_code=..., outcome=..., ...)
WithOutcome(h, t, code, out) ==
    IF CurrentContext(t) = Unset THEN h
    ELSE [h EXCEPT ![CurrentContext(t)].status_code = code,
                   ![CurrentContext(t)].outcome = out]

\* record_llm_usage that logs its event and stores nothing (the LookupError
\* return taken every time), against which C30 is tested.
UsageNotStored(h, t, step, d) == h

\* record_llm_usage(step, usage, duration_ms=d): context.setdefault("llm_usage",
\* {})[step] = usage_data, a no-op (after the log event) when no context is set.
RecordLlmUsage(h, t, step, d) ==
    IF CurrentContext(t) = Unset THEN h
    ELSE [h EXCEPT ![CurrentContext(t)].llm_usage = (step :> d) @@ @]

\* get_llm_usage(): the llm_usage dict of the current context, or {}.
GetLlmUsage(h, t) ==
    IF CurrentContext(t) = Unset THEN EmptyDict ELSE h[CurrentContext(t)].llm_usage

\* ------------------------------------------------------------ core/metrics.py
\* normalized_status = "success" if status == "success" else "error"
NormalizedStatus(status) == IF status = "success" THEN "success" ELSE "error"

\* self._request_counts[normalized_status] = 1 (an assignment in place of the
\* in-place addition), against which C11 is tested.
AssignedOne(counts, key, read) == [counts EXCEPT ![key] = 1]

\* self._request_counts[normalized_status] += 1, from the value read
Incremented(counts, key, read) == [counts EXCEPT ![key] = read + 1]

\* the loop over step_durations.items()
RecordSteps(stats, durs) ==
    [s \in DOMAIN stats |->
        IF s \in DOMAIN durs
        THEN [count |-> stats[s].count + 1,
              total_duration |-> stats[s].total_duration + durs[s]]
        ELSE stats[s]]

\* The snapshot built under the lock: a copy of the counts and, for the steps
\* seen so far, the average kept as the exact quotient total / count.
Snapshot(counts, stats) ==
    [requests |-> counts,
     step_average_duration_ms |->
        [s \in {x \in DOMAIN stats : stats[x].count > 0} |->
            [total |-> stats[s].total_duration, count |-> stats[s].count]]]

\* MetricsRecorder.__init__; _step_stats is a defaultdict, an absent step
\* reading as {"count": 0, "total_duration": 0.0}.
InitialCounts == [success |-> 0, error |-> 0]

InitialStepStats ==
    [s \in {StageNames[i] : i \in 1..NumStages} |-> [count |-> 0, total_duration |-> 0]]

\* -------------------------------------------------------- api/generate.py
NoResponse == [kind |-> "none", status |-> 0, parts |-> {}, detail |-> <<>>]

\* GenerateResponse(resume=resume, cover_letter=cover_letter), status 200
OkResponse == [kind |-> "response", status |-> 200,
               parts |-> {"resume", "cover_letter"}, detail |-> <<>>]

\* raise HTTPException(status_code=500, detail=...), rendered by FastAPI
HTTPException(detail) == [kind |-> "response", status |-> 500, parts |-> {}, detail |-> detail]

\* FastAPI's answer to a body GenerateRequest rejects; generate_all is not run.
UnprocessableResponse == [kind |-> "response", status |-> 422, parts |-> {},
                          detail |-> <<"request validation">>]

\* An exception leaving call_next instead of a response.
RaisedDownstream == [kind |-> "raise", status |-> 0, parts |-> {}, detail |-> <<>>]

\* A handler that answers a failure with what it has so far, against which C6
\* is tested.
PartialResponse(e) == [kind |-> "response", status |-> 200, parts |-> {"resume"},
                       detail |-> <<>>]

\* The two except clauses of generate_all.
HandlerFailure(e) ==
    IF e.kind = "LLMClientError"
    THEN HTTPException(<<"Failed to generate content">> \o e.msg)
    ELSE HTTPException(<<"Internal server error">>)

\* A handler that swallows the stage's exception and goes on, against which C5
\* is tested.
ContinueRegardless(res) == TRUE

\* generate_all goes on to the next statement only when the stage call returned.
StageSucceeded(res) == res.ok

\* ------------------------------------------------------ middleware/logging.py
\* An outcome rule that counts only 5xx as errors, against which C10 is tested.
OutcomeServerErrorsOnly(status) == IF status < 500 THEN "success" ELSE "error"

\* outcome = "success" if response.status_code < 400 else "error"
Outcome(status) == IF status < 400 THEN "success" ELSE "error"

\* ------------------------------------------------------ core/context.py store
\* Identity of the RequestContext() built once, at import, as the ContextVar default.
DefaultObj == 1

\* RequestContext(request_id=rid): token_usage None is present = FALSE.
NewRequestContext(rid) ==
    [kind |-> "RequestContext", request_id |-> rid,
     token_usage |-> [present |-> FALSE, prompt_tokens |-> 0,
                      completion_tokens |-> 0, total_tokens |-> 0]]

NoToken == [held |-> FALSE, old |-> Unset]

\* Identities of the objects the stores allocate.  A task has at most one live
\* dict and one live RequestContext of its own at a time, so each new object
\* is named after the task that builds it; the names are pairwise distinct
\* and distinct from DefaultObj.
NewDict(t) == DefaultObj + t

NewObject(t) == DefaultObj + NumRequests + t

\* ------------------------------------------------------------------- Init
PipeInit ==
    /\ pc = [r \in Requests |-> "new"]
    /\ loop = NoTask
    /\ downstream = [r \in Requests |-> NoResponse]
    /\ stage = [r \in Requests |-> 0]
    /\ attempt = [r \in Requests |-> 0]
    /\ hpc = [r \in Requests |-> "idle"]
    /\ lastResult = [r \in Requests |-> Pending]
    /\ callResult = [r \in Requests |-> Pending]
    /\ sleeps = [r \in Requests |-> <<>>]
    /\ hist = [r \in Requests |-> <<>>]
    /\ invoked = [r \in Requests |-> {}]
    /\ completed = [r \in Requests |-> {}]
    /\ recorded = [r \in Requests |-> <<>>]
    /\ client = "None"

CtxInit ==
    /\ cv = [t \in Requests |-> Unset]
    /\ tok = [t \in Requests |-> NoToken]
    /\ ccv = [t \in Requests |-> Unset]
    /\ heap = (DefaultObj :> NewRequestContext("None"))
    /\ writers = {}
    /\ observed = {}

MetricsInit ==
    /\ request_counts = InitialCounts
    /\ step_stats = InitialStepStats
    /\ lock = 0

ThreadInit ==
    /\ tpc = [t \in Threads |-> "idle"]
    /\ targ = [t \in Threads |-> [status |-> "None", step_durations |-> EmptyDict]]
    /\ tnorm = [t \in Threads |-> "None"]
    /\ tread = [t \in Threads |-> 0]
    /\ tsnap = [t \in Threads |-> [requests |-> InitialCounts,
                                   step_average_duration_ms |-> EmptyDict]]

\* No call of the pure functions is in progress.
NotCalled == [ok |-> FALSE, value |-> "not called", err |-> NoExc]

\* r is what a call gave (a value or an exception), not the NotCalled mark.
Called(r) == r.ok \/ r.err.kind # "none"

FnInit ==
    /\ data = NotCalled
    /\ cleaned_data = NotCalled
    /\ value = NotCalled
    /\ max_length = 0
    /\ allow_atual = FALSE
    /\ text = NotCalled
    /\ resume_data = NotCalled
    /\ normalized = NotCalled

\* Nothing of SpecSchema, SpecCover, SpecKeywords, SpecClient or SpecStage has run.
CallInit ==
    /\ kwargs = NotCalled
    /\ instance = NotCalled
    /\ cover_data = NotCalled
    /\ cover_letter = NotCalled
    /\ candidates = NotCalled
    /\ found = NotCalled
    /\ gpc = <<>>
    /\ got = <<>>
    /\ built = {}
    /\ call = NotCalled
    /\ events = <<>>

Init ==
    /\ PipeInit /\ CtxInit /\ MetricsInit /\ ThreadInit /\ CallInit /\ FnInit
    /\ apiKey \in BOOLEAN

\* -------------------------------------------- middleware/request_id.py (entry)
\* RequestIdMiddleware.dispatch up to `await call_next(request)`:
\* set_request_context builds a new dict and binds it in the task's context.
RequestIdDispatch(r) ==
    /\ loop = NoTask
    /\ pc[r] = "new"
    /\ heap' = (NewDict(r) :> NewContext(r)) @@ heap
    /\ cv' = [cv EXCEPT ![r] = NewDict(r)]
    /\ tok' = [tok EXCEPT ![r] = [held |-> TRUE, old |-> cv[r]]]
    /\ pc' = [pc EXCEPT ![r] = "rid_await"]
    /\ UNCHANGED <<loop, downstream, stage, attempt, hpc, lastResult,
                   callResult, sleeps, hist, invoked, completed, recorded, client,
                   apiKey, ccv, writers, observed, metricVars, threadVars, fnVars, callVars>>

\* StructuredLoggingMiddleware.dispatch up to `await call_next(request)`:
\* logs http_request_started.
LoggingDispatch(r) ==
    /\ loop = NoTask
    /\ pc[r] = "rid_await"
    /\ pc' = [pc EXCEPT ![r] = "log_await"]
    /\ UNCHANGED <<loop, downstream, stage, attempt, hpc, lastResult,
                   callResult, sleeps, hist, invoked, completed, recorded, client,
                   apiKey, ctxVars, metricVars, threadVars, fnVars, callVars>>

\* The request body fails GenerateRequest validation: FastAPI answers 422.
RequestRejected(r) ==
    /\ loop = NoTask
    /\ pc[r] = "log_await"
    /\ downstream' = [downstream EXCEPT ![r] = UnprocessableResponse]
    /\ pc' = [pc EXCEPT ![r] = "log_resume"]
    /\ UNCHANGED <<loop, stage, attempt, hpc, lastResult,
                   callResult, sleeps, hist, invoked, completed, recorded, client,
                   apiKey, ctxVars, metricVars, threadVars, fnVars, callVars>>

\* ---------------------------------------------------------- generate_all
\* Entering a stage call: tenacity starts with attempt_number 1.
BeginCall(r, s) ==
    /\ stage' = [stage EXCEPT ![r] = s]
    /\ attempt' = [attempt EXCEPT ![r] = 1]
    /\ hpc' = [hpc EXCEPT ![r] = "attempt"]
    /\ lastResult' = [lastResult EXCEPT ![r] = Pending]
    /\ callResult' = [callResult EXCEPT ![r] = Pending]
    /\ sleeps' = [sleeps EXCEPT ![r] = <<>>]
    /\ hist' = [hist EXCEPT ![r] = <<>>]
    /\ invoked' = [invoked EXCEPT ![r] = @ \cup {s}]

\* Leaving generate_all: its locals are gone.
EndHandler(r) ==
    /\ stage' = [stage EXCEPT ![r] = 0]
    /\ attempt' = [attempt EXCEPT ![r] = 0]
    /\ hpc' = [hpc EXCEPT ![r] = "idle"]
    /\ lastResult' = [lastResult EXCEPT ![r] = Pending]
    /\ callResult' = [callResult EXCEPT ![r] = Pending]
    /\ sleeps' = [sleeps EXCEPT ![r] = <<>>]
    /\ hist' = [hist EXCEPT ![r] = <<>>]

\* generate_all starts: update_request_context(handler="generate_all"), then
\* calls extract_payload.  The coroutine never awaits, so it keeps the event
\* loop thread until it returns or raises.
GenerateAllStarts(r) ==
    /\ loop = NoTask
    /\ pc[r] = "log_await"
    /\ loop' = r
    /\ pc' = [pc EXCEPT ![r] = "handler"]
    /\ heap' = WithHandler(heap, r, "generate_all")
    /\ BeginCall(r, 1)
    /\ UNCHANGED <<downstream, completed, recorded, client, apiKey,
                   cv, tok, ccv, writers, observed, metricVars, threadVars, fnVars, callVars>>

AttemptClass(res) ==
    IF res.ok THEN "ok" ELSE IF IsRetryable(res) THEN "transient" ELSE "fatal"

\* One execution of the stage function under tenacity: _get_openai_client, the
\* provider call with outcome o, the handling of the completion, and on
\* success record_llm_usage with the measured duration d.
Attempt(r) ==
    /\ loop = r
    /\ hpc[r] = "attempt"
    /\ \E o \in ProviderErrors \cup Contents(stage[r]), d \in Durations :
         LET res == StageAttempt(stage[r], client, apiKey, o)
         IN  /\ lastResult' = [lastResult EXCEPT ![r] = res]
             /\ hist' = [hist EXCEPT ![r] = Append(@, AttemptClass(res))]
             /\ client' = IF GetClientFails(client, apiKey) THEN client ELSE "OpenAI"
             /\ heap' = IF res.ok
                        THEN RecordLlmUsage(heap, r, StageNames[stage[r]], d)
                        ELSE heap
    /\ hpc' = [hpc EXCEPT ![r] = "attempted"]
    /\ UNCHANGED <<pc, loop, downstream, stage, attempt, callResult,
                   sleeps, invoked, completed, recorded, apiKey,
                   cv, tok, ccv, writers, observed, metricVars, threadVars, fnVars, callVars>>

\* tenacity: the attempt raised a retryable exception and attempts remain:
\* sleep wait_exponential(attempt_number), then run the function again
\* (prepare_for_next_attempt drops the failed attempt's outcome).
Retry(r) ==
    /\ loop = r
    /\ hpc[r] = "attempted"
    /\ IsRetryable(lastResult[r])
    /\ ~ShouldStop(attempt[r])
    /\ sleeps' = [sleeps EXCEPT ![r] = Append(@, wait_exponential(attempt[r]))]
    /\ attempt' = [attempt EXCEPT ![r] = @ + 1]
    /\ hpc' = [hpc EXCEPT ![r] = "attempt"]
    /\ lastResult' = [lastResult EXCEPT ![r] = Pending]
    /\ UNCHANGED <<pc, loop, downstream, stage, callResult,
                   hist, invoked, completed, recorded, client, apiKey,
                   ctxVars, metricVars, threadVars, fnVars, callVars>>

\* tenacity: a retryable exception on the last attempt: stop and re-raise.
GiveUp(r) ==
    /\ loop = r
    /\ hpc[r] = "attempted"
    /\ IsRetryable(lastResult[r])
    /\ ShouldStop(attempt[r])
    /\ callResult' = [callResult EXCEPT ![r] = Raised(Reraise(lastResult[r].err))]
    /\ hpc' = [hpc EXCEPT ![r] = "call_done"]
    /\ UNCHANGED <<pc, loop, downstream, stage, attempt, lastResult,
                   sleeps, hist, invoked, completed, recorded, client, apiKey,
                   ctxVars, metricVars, threadVars, fnVars, callVars>>

\* tenacity: an exception the retry predicate rejects leaves the call at once.
Propagate(r) ==
    /\ loop = r
    /\ hpc[r] = "attempted"
    /\ ~lastResult[r].ok
    /\ ~IsRetryable(lastResult[r])
    /\ callResult' = [callResult EXCEPT ![r] = lastResult[r]]
    /\ hpc' = [hpc EXCEPT ![r] = "call_done"]
    /\ UNCHANGED <<pc, loop, downstream, stage, attempt, lastResult,
                   sleeps, hist, invoked, completed, recorded, client, apiKey,
                   ctxVars, metricVars, threadVars, fnVars, callVars>>

\* tenacity: the attempt returned a value, which is the call's value.
Return(r) ==
    /\ loop = r
    /\ hpc[r] = "attempted"
    /\ lastResult[r].ok
    /\ callResult' = [callResult EXCEPT ![r] = lastResult[r]]
    /\ completed' = [completed EXCEPT ![r] = @ \cup {stage[r]}]
    /\ hpc' = [hpc EXCEPT ![r] = "call_done"]
    /\ UNCHANGED <<pc, loop, downstream, stage, attempt, lastResult,
                   sleeps, hist, invoked, recorded, client, apiKey,
                   ctxVars, metricVars, threadVars, fnVars, callVars>>

\* generate_all: the stage call returned, the next stage function is called.
NextStage(r) ==
    /\ loop = r
    /\ hpc[r] = "call_done"
    /\ StageSucceeded(callResult[r])
    /\ stage[r] < NumStages
    /\ BeginCall(r, stage[r] + 1)
    /\ UNCHANGED <<pc, loop, downstream, completed, recorded, client,
                   apiKey, ctxVars, metricVars, threadVars, fnVars, callVars>>

\* generate_all: generate_cover_text returned; the handler returns
\* GenerateResponse.  serialised = FALSE: an exception leaves call_next in
\* place of the response (FastAPI fails to serialise the returned value).
GenerateAllReturns(r) ==
    /\ loop = r
    /\ hpc[r] = "call_done"
    /\ StageSucceeded(callResult[r])
    /\ stage[r] = NumStages
    /\ \E serialised \in BOOLEAN :
         downstream' = [downstream EXCEPT ![r] =
                           IF serialised THEN OkResponse ELSE RaisedDownstream]
    /\ loop' = NoTask
    /\ pc' = [pc EXCEPT ![r] = "log_resume"]
    /\ EndHandler(r)
    /\ UNCHANGED <<invoked, completed, recorded, client, apiKey,
                   ctxVars, metricVars, threadVars, fnVars, callVars>>

\* generate_all: the stage call raised; one of the two except clauses turns
\* the exception into an HTTPException.
GenerateAllFails(r) ==
    /\ loop = r
    /\ hpc[r] = "call_done"
    /\ ~callResult[r].ok
    /\ downstream' = [downstream EXCEPT ![r] = HandlerFailure(callResult[r].err)]
    /\ loop' = NoTask
    /\ pc' = [pc EXCEPT ![r] = "log_resume"]
    /\ EndHandler(r)
    /\ UNCHANGED <<invoked, completed, recorded, client, apiKey,
                   ctxVars, metricVars, threadVars, fnVars, callVars>>

\* ------------------------------------------- middleware/logging.py (resume)
\* The status StructuredLoggingMiddleware.dispatch passes to record_request:
\* "error" in the except branch, the outcome of the status code otherwise.
RecordedStatus(resp) ==
    IF resp.kind = "raise" THEN "error" ELSE Outcome(resp.status)

\* The status code the middleware writes into the request context.
ContextStatusCode(resp) ==
    IF resp.kind = "raise" THEN 500 ELSE resp.status

\* StructuredLoggingMiddleware.dispatch after `await call_next(request)`: in
\* either branch reads get_llm_usage(), calls metrics_recorder.record_request
\* once (it runs to completion on the event loop thread, taking and releasing
\* the lock) and updates the request context; then returns the response or
\* re-raises.
LoggingResume(r) ==
    /\ loop = NoTask
    /\ pc[r] = "log_resume"
    /\ lock = 0
    /\ LET st == RecordedStatus(downstream[r])
           durs == GetLlmUsage(heap, r)
           key == NormalizedStatus(st)
       IN  /\ request_counts' = Incremented(request_counts, key, request_counts[key])
           /\ step_stats' = RecordSteps(step_stats, durs)
           /\ recorded' = [recorded EXCEPT ![r] = Append(@, st)]
           /\ heap' = WithOutcome(heap, r, ContextStatusCode(downstream[r]), st)
    /\ pc' = [pc EXCEPT ![r] = "rid_resume"]
    /\ UNCHANGED <<loop, downstream, stage, attempt, hpc, lastResult,
                   callResult, sleeps, hist, invoked, completed, client, apiKey,
                   cv, tok, ccv, writers, observed, lock, threadVars, fnVars, callVars>>

\* ---------------------------------------- middleware/request_id.py (resume)
\* reset_request_context(token): `if token: _request_context.reset(token)`.
ResetValue(t) == IF tok[t].held THEN tok[t].old ELSE cv[t]

\* The context objects still referenced once task t has reset its variable.
Reachable(h, t) ==
    [o \in {x \in DOMAIN h : x = DefaultObj
                             \/ \E u \in Requests \ {t} : cv[u] = x \/ ccv[u] = x
                             \/ ccv[t] = x \/ ResetValue(t) = x} |-> h[o]]

\* RequestIdMiddleware.dispatch after `await call_next(request)`: the finally
\* block resets the context variable; a response gets the X-Request-ID header
\* and is sent, an exception goes on to the caller.  The task ends here and
\* what it held (the response, the handler's results) is gone with it.
RequestIdResume(r) ==
    /\ loop = NoTask
    /\ pc[r] = "rid_resume"
    /\ cv' = [cv EXCEPT ![r] = ResetValue(r)]
    /\ tok' = [tok EXCEPT ![r] = NoToken]
    /\ heap' = Reachable(heap, r)
    /\ downstream' = [downstream EXCEPT ![r] = NoResponse]
    /\ invoked' = [invoked EXCEPT ![r] = {}]
    /\ completed' = [completed EXCEPT ![r] = {}]
    /\ pc' = [pc EXCEPT ![r] = "done"]
    /\ UNCHANGED <<loop, stage, attempt, hpc, lastResult,
                   callResult, sleeps, hist, recorded, client,
                   apiKey, ccv, writers, observed, metricVars, threadVars, fnVars, callVars>>

Next ==
    \E r \in Requests :
        \/ RequestIdDispatch(r)
        \/ LoggingDispatch(r)
        \/ RequestRejected(r)
        \/ GenerateAllStarts(r)
        \/ Attempt(r)
        \/ Retry(r)
        \/ GiveUp(r)
        \/ Propagate(r)
        \/ Return(r)
        \/ NextStage(r)
        \/ GenerateAllReturns(r)
        \/ GenerateAllFails(r)
        \/ LoggingResume(r)
        \/ RequestIdResume(r)

Spec == Init /\ [][Next]_vars

\* =========================================================== claims on Spec
AllTransient(h) == \A i \in 1..Len(h) : h[i] = "transient"

CallDone(r) == pc[r] = "handler" /\ hpc[r] = "call_done"

\* C1: a stage call (any of the three) whose attempts 1 and 2 fail with a
\* transient provider error is not given up before attempt 3, and when attempt
\* 3 succeeds the call returns that attempt's value after exactly 3 attempts
\* (two waits): generate_all sees a returned value, not a failure.
C1_TwoTransientThenSuccess ==
    \A r \in Requests :
        (CallDone(r) /\ Len(hist[r]) >= 2
           /\ hist[r][1] = "transient" /\ hist[r][2] = "transient")
        => /\ Len(hist[r]) = MaxAttempts
           /\ attempt[r] = MaxAttempts
           /\ hist[r][MaxAttempts] = "ok"
                => /\ callResult[r] = Returned(StageNames[stage[r]])
                   /\ stage[r] \in completed[r]
                   /\ Len(sleeps[r]) = MaxAttempts - 1
                   /\ ~ENABLED GenerateAllFails(r)

C1_Witness ==
    \E r \in Requests :
        /\ CallDone(r) /\ stage[r] = NumStages
        /\ hist[r] = <<"transient", "transient", "ok">>
        /\ callResult[r].ok

\* A failed result whose exception is not one of the provider's errors.
Fatal(res) == ~res.ok /\ res.err.kind \notin ProviderErrors

\* C2 as stated: every stage call that fails with a non-retryable failure has
\* performed exactly 1 attempt and no backoff wait.
C2_FatalMeansOneAttempt ==
    \A r \in Requests :
        (CallDone(r) /\ Fatal(callResult[r]))
        => attempt[r] = 1 /\ sleeps[r] = <<>>

\* C2 amended: a non-retryable failure is never retried: it ends the stage
\* call on the attempt where it occurs, with no wait after it (one wait per
\* earlier transient failure only), and a call whose first attempt fails
\* non-retryably performs exactly 1 attempt and no wait.
C2_FatalNotRetried ==
    \A r \in Requests :
        /\ (pc[r] = "handler" /\ hpc[r] = "attempted" /\ Fatal(lastResult[r]))
           => /\ ~ENABLED Retry(r)
              /\ ENABLED Propagate(r)
        /\ (CallDone(r) /\ Fatal(callResult[r]))
           => /\ callResult[r] = lastResult[r]
              /\ callResult[r].err.kind = "LLMClientError"
              /\ hist[r][Len(hist[r])] = "fatal"
              /\ AllTransient(SubSeq(hist[r], 1, Len(hist[r]) - 1))
              /\ Len(hist[r]) = attempt[r]
              /\ Len(sleeps[r]) = attempt[r] - 1
              /\ hist[r][1] = "fatal" => (attempt[r] = 1 /\ sleeps[r] = <<>>)

C2_Witness ==
    \E r \in Requests :
        /\ CallDone(r) /\ stage[r] = 2
        /\ hist[r] = <<"fatal">>
        /\ callResult[r].err.msg[1] = "Invalid JSON response"

\* C3: when every attempt of a stage call fails with a transient provider
\* error the call ends after exactly 3 attempts and raises the provider's own
\* last error (same class, same message), not LLMClientError or RetryError.
C3_ExhaustionReraisesLast ==
    \A r \in Requests :
        (CallDone(r) /\ AllTransient(hist[r]))
        => /\ Len(hist[r]) = MaxAttempts
           /\ attempt[r] = MaxAttempts
           /\ ~callResult[r].ok
           /\ callResult[r].err = lastResult[r].err
           /\ callResult[r].err.kind \in ProviderErrors
           /\ callResult[r].err.msg = <<callResult[r].err.kind>>

C3_Witness ==
    \E r \in Requests :
        /\ CallDone(r)
        /\ hist[r] = <<"transient", "transient", "transient">>
        /\ callResult[r].err.kind = "RateLimitError"

\* C4 as stated: the wait before attempt 2 is 2, the wait before attempt 3 is
\* 4 (start at 2, doubling), and no wait exceeds 10.
C4_BackoffDoubles ==
    \A r \in Requests :
        /\ \A i \in 1..Len(sleeps[r]) : sleeps[r][i] <= WaitMax
        /\ Len(sleeps[r]) >= 1 => sleeps[r][1] = 2
        /\ Len(sleeps[r]) >= 2 => sleeps[r][2] = 4

\* C5: within a request the stages run in the order extract, resume, cover
\* letter: the stages started are 1..stage, every stage before the one in
\* progress has returned a value, and at most one stage is unfinished.
C5_StagesInOrder ==
    \A r \in Requests :
        /\ pc[r] = "handler" => invoked[r] = 1..stage[r]
        /\ \E k \in 0..NumStages : invoked[r] = 1..k
        /\ completed[r] \subseteq invoked[r]
        /\ \A s \in invoked[r] : \A j \in 1..(s - 1) : j \in completed[r]
        /\ Cardinality(invoked[r] \ completed[r]) <= 1
        /\ (pc[r] = "handler" /\ hpc[r] \in {"attempt", "attempted"})
           => completed[r] = 1..(stage[r] - 1)

C5_Witness ==
    \E r \in Requests :
        /\ pc[r] = "handler" /\ stage[r] = NumStages
        /\ hpc[r] = "attempt" /\ attempt[r] = 2
        /\ completed[r] = {1, 2}

HandlerRan(r) == pc[r] \in {"log_resume", "rid_resume"} /\ invoked[r] # {}

\* C6: once a stage of a request has failed no later stage is started, and
\* what generate_all hands back is either the response with both the resume
\* and the cover letter (all three stages returned) or a failure with
\* neither; a resume produced before a failing stage is not in it.
C6_FailureAbortsPipeline ==
    \A r \in Requests :
        /\ (CallDone(r) /\ ~callResult[r].ok)
           => (invoked[r] = 1..stage[r] /\ ~ENABLED NextStage(r))
        /\ HandlerRan(r)
           => /\ \A s \in invoked[r] \ completed[r] :
                    /\ \A j \in invoked[r] : j <= s
                    /\ downstream[r].kind = "response"
                    /\ downstream[r].status = 500
                    /\ downstream[r].parts = {}
              /\ downstream[r].kind = "response"
                    => \/ /\ downstream[r].parts = {"resume", "cover_letter"}
                          /\ downstream[r].status = 200
                          /\ completed[r] = 1..NumStages
                       \/ /\ downstream[r].parts = {}
                          /\ downstream[r].status >= 400

C6_Witness ==
    \E r \in Requests :
        /\ pc[r] = "log_resume"
        /\ invoked[r] = {1, 2, 3} /\ completed[r] = {1, 2}
        /\ downstream[r].status = 500

HandlerFailed(r) == HandlerRan(r) /\ invoked[r] # completed[r]

\* C7 as stated: any two requests whose generate_all failed carry the same
\* caller-visible failure content, whichever stage failed and whatever the cause.
C7_GenericFailureSignal ==
    \A r1, r2 \in Requests :
        (HandlerFailed(r1) /\ HandlerFailed(r2))
        => downstream[r1] = downstream[r2]

Recorded(r) == pc[r] \in {"rid_resume", "done"}

\* C10: each request the logging middleware handles causes exactly one
\* record_request call, made when call_next has returned or raised; the status
\* recorded is "success" exactly when a response came back with a status code
\* below 400; and the aggregator's counts are the number of such calls.
C10_OneRecordPerRequest ==
    /\ \A r \in Requests :
          /\ Len(recorded[r]) = IF Recorded(r) THEN 1 ELSE 0
          /\ pc[r] = "rid_resume"
             => (recorded[r][1] = "success"
                   <=> (downstream[r].kind = "response" /\ downstream[r].status < 400))
    /\ request_counts.success =
          Cardinality({r \in Requests : Recorded(r) /\ recorded[r] = <<"success">>})
    /\ request_counts.error =
          Cardinality({r \in Requests : Recorded(r) /\ recorded[r] # <<"success">>})

C10_Witness ==
    \E r1, r2 \in Requests :
        /\ pc[r1] = "rid_resume" /\ downstream[r1].kind = "raise"
        /\ recorded[r1] = <<"error">>
        /\ pc[r2] = "done" /\ recorded[r2] = <<"success">>

\* ============================================================= SpecMetrics
\* Arguments the concurrent callers pass to record_request.
Statuses == {"success", "error", "timeout"}

StepDurations == {EmptyDict, ("extract_payload" :> 1)}

\* record_request without the lock, against which C8 is tested.
Unlocked(t) == TRUE

\* `with self._lock`: the lock can be taken when no thread holds it.
LockFree(t) == lock = 0

\* A thread calls record_request(status, step_durations) and computes
\* normalized_status, outside the lock.
Call(t) ==
    /\ tpc[t] = "idle"
    /\ \E st \in Statuses, durs \in StepDurations :
         /\ targ' = [targ EXCEPT ![t] = [status |-> st, step_durations |-> durs]]
         /\ tnorm' = [tnorm EXCEPT ![t] = NormalizedStatus(st)]
    /\ tpc' = [tpc EXCEPT ![t] = "acquire"]
    /\ UNCHANGED <<tread, tsnap, metricVars, pipeVars, ctxVars, fnVars, callVars>>

\* with self._lock: (enter)
Acquire(t) ==
    /\ tpc[t] = "acquire"
    /\ LockFree(t)
    /\ lock' = t
    /\ tpc' = [tpc EXCEPT ![t] = "read"]
    /\ UNCHANGED <<targ, tnorm, tread, tsnap, request_counts, step_stats,
                   pipeVars, ctxVars, fnVars, callVars>>

\* self._request_counts[normalized_status] += 1: the read ...
ReadCount(t) ==
    /\ tpc[t] = "read"
    /\ tread' = [tread EXCEPT ![t] = request_counts[tnorm[t]]]
    /\ tpc' = [tpc EXCEPT ![t] = "write"]
    /\ UNCHANGED <<targ, tnorm, tsnap, metricVars, pipeVars, ctxVars, fnVars, callVars>>

\* ... and the write of the incremented value.
WriteCount(t) ==
    /\ tpc[t] = "write"
    /\ request_counts' = Incremented(request_counts, tnorm[t], tread[t])
    /\ tpc' = [tpc EXCEPT ![t] = "steps"]
    /\ UNCHANGED <<targ, tnorm, tread, tsnap, step_stats, lock, pipeVars, ctxVars, fnVars, callVars>>

\* for step, duration in step_durations.items(): ...
RecordStepStats(t) ==
    /\ tpc[t] = "steps"
    /\ step_stats' = RecordSteps(step_stats, targ[t].step_durations)
    /\ tpc' = [tpc EXCEPT ![t] = "snapshot"]
    /\ UNCHANGED <<targ, tnorm, tread, tsnap, request_counts, lock, pipeVars, ctxVars, fnVars, callVars>>

\* snapshot = {...}
TakeSnapshot(t) ==
    /\ tpc[t] = "snapshot"
    /\ tsnap' = [tsnap EXCEPT ![t] = Snapshot(request_counts, step_stats)]
    /\ tpc' = [tpc EXCEPT ![t] = "release"]
    /\ UNCHANGED <<targ, tnorm, tread, metricVars, pipeVars, ctxVars, fnVars, callVars>>

\* with self._lock: (exit), return snapshot
Release(t) ==
    /\ tpc[t] = "release"
    /\ lock' = 0
    /\ tpc' = [tpc EXCEPT ![t] = "done"]
    /\ UNCHANGED <<targ, tnorm, tread, tsnap, request_counts, step_stats,
                   pipeVars, ctxVars, fnVars, callVars>>

InitMetrics ==
    /\ PipeInit /\ CtxInit /\ MetricsInit /\ ThreadInit /\ CallInit /\ FnInit
    /\ apiKey = TRUE

NextMetrics ==
    \E t \in Threads :
        \/ Call(t)
        \/ Acquire(t)
        \/ ReadCount(t)
        \/ WriteCount(t)
        \/ RecordStepStats(t)
        \/ TakeSnapshot(t)
        \/ Release(t)

SpecMetrics == InitMetrics /\ [][NextMetrics]_vars

\* Threads whose increment has been written.
Counted(t) == tpc[t] \in {"steps", "snapshot", "release", "done"}

\* C8: for every interleaving of the concurrent record_request calls, the
\* request counts are exactly the number of calls made with status "success"
\* and the number made with any other status, as soon as each call has
\* written its increment and in particular when all have returned: no
\* increment is lost.
C8_NoLostUpdates ==
    /\ request_counts.success =
          Cardinality({t \in Threads : Counted(t) /\ targ[t].status = "success"})
    /\ request_counts.error =
          Cardinality({t \in Threads : Counted(t) /\ targ[t].status # "success"})
    /\ \A t \in Threads :
          tpc[t] \in {"release", "done"} => tsnap[t].requests[tnorm[t]] >= 1

C8_Witness ==
    /\ \A t \in Threads : tpc[t] = "done"
    /\ request_counts.success >= 1
    /\ request_counts.error >= 2
    /\ \E t \in Threads : targ[t].status = "timeout"

\* C11: the two request counts never decrease; they change only where a
\* record_request call writes its increment, and that step adds exactly 1 to
\* the count of the call's status ("success" for status "success", "error" for
\* every other status) and leaves the other count as it was.
C11_CountsOnlyGrowByOne ==
    [][ /\ request_counts'.success >= request_counts.success
        /\ request_counts'.error >= request_counts.error
        /\ request_counts' # request_counts => \E t \in Threads : WriteCount(t)
        /\ \A t \in Threads :
              WriteCount(t)
              => LET key == IF targ[t].status = "success" THEN "success" ELSE "error"
                     other == IF key = "success" THEN "error" ELSE "success"
                 IN  /\ request_counts'[key] = request_counts[key] + 1
                     /\ request_counts'[other] = request_counts[other]
      ]_vars

C11_Witness ==
    \E t, u \in Threads :
        /\ Counted(t) /\ targ[t].status = "timeout"
        /\ Counted(u) /\ targ[u].status = "success"
        /\ request_counts = [success |-> 1, error |-> 1]

\* ============================================================= SpecContext
\* Tasks (one per request, each with its own contextvars.Context) call the
\* functions of the two context stores in any order and any interleaving.

\* The usage dict handed to add_token_usage.
Usages == {[prompt_tokens |-> 1, completion_tokens |-> 0, total_tokens |-> 1]}

\* RequestContext.add_token_usage(usage) on the object's token_usage.
AddTokenUsage(tu, usage) ==
    LET base == IF tu.present THEN tu
                ELSE [present |-> TRUE, prompt_tokens |-> 0,
                      completion_tokens |-> 0, total_tokens |-> 0]
    IN  [present |-> TRUE,
         prompt_tokens |-> base.prompt_tokens + usage.prompt_tokens,
         completion_tokens |-> base.completion_tokens + usage.completion_tokens,
         total_tokens |-> base.total_tokens + usage.total_tokens]

\* core/context.py get_request_context() in task t: _context_var.get(), which
\* yields the ContextVar's default object when t has set none.
CoreCurrentContext(t) == IF ccv[t] = Unset THEN DefaultObj ELSE ccv[t]

\* Reading object o in task t: t observes what each writer of o has put there.
Reading(t, o) == observed \cup {<<t, a[1]>> : a \in {w \in writers : w[2] = o}}

\* observability.set_request_context(...) in task t
CtxSet(t) ==
    /\ ~tok[t].held
    /\ heap' = (NewDict(t) :> NewContext(t)) @@ heap
    /\ cv' = [cv EXCEPT ![t] = NewDict(t)]
    /\ tok' = [tok EXCEPT ![t] = [held |-> TRUE, old |-> cv[t]]]
    /\ UNCHANGED <<ccv, writers, observed, pipeVars, metricVars, threadVars, fnVars, callVars>>

\* observability.reset_request_context(token) in task t; the dict it drops
\* is unreachable from then on.
CtxReset(t) ==
    /\ tok[t].held
    /\ cv' = [cv EXCEPT ![t] = ResetValue(t)]
    /\ tok' = [tok EXCEPT ![t] = NoToken]
    /\ heap' = Reachable(heap, t)
    /\ writers' = {a \in writers : a[2] # cv[t]}
    /\ UNCHANGED <<ccv, observed, pipeVars, metricVars, threadVars, fnVars, callVars>>

\* observability.get_request_context() in task t: the current dict is read
\* (with none set the result is a new empty dict that no one else holds).
CtxGet(t) ==
    /\ CurrentContext(t) # Unset
    /\ observed' = Reading(t, CurrentContext(t))
    /\ UNCHANGED <<cv, tok, heap, ccv, writers, pipeVars, metricVars, threadVars, fnVars, callVars>>

\* observability.update_request_context(handler="generate_all") in task t
CtxUpdate(t) ==
    /\ heap' = WithHandler(heap, t, "generate_all")
    /\ writers' = IF CurrentContext(t) = Unset THEN writers
                  ELSE writers \cup {<<t, CurrentContext(t)>>}
    /\ UNCHANGED <<cv, tok, ccv, observed, pipeVars, metricVars, threadVars, fnVars, callVars>>

\* observability.record_llm_usage("extract_payload", ...) in task t
CtxRecordUsage(t) ==
    /\ \E d \in Durations : heap' = RecordLlmUsage(heap, t, StageNames[1], d)
    /\ writers' = IF CurrentContext(t) = Unset THEN writers
                  ELSE writers \cup {<<t, CurrentContext(t)>>}
    /\ UNCHANGED <<cv, tok, ccv, observed, pipeVars, metricVars, threadVars, fnVars, callVars>>

\* context.set_request_context(RequestContext(request_id=...)) in task t
CoreSet(t) ==
    /\ ccv[t] = Unset
    /\ heap' = (NewObject(t) :> NewRequestContext(t)) @@ heap
    /\ ccv' = [ccv EXCEPT ![t] = NewObject(t)]
    /\ UNCHANGED <<cv, tok, writers, observed, pipeVars, metricVars, threadVars, fnVars, callVars>>

\* context.get_request_context() in task t, reading the object it yields
CoreGet(t) ==
    /\ observed' = Reading(t, CoreCurrentContext(t))
    /\ UNCHANGED <<cv, tok, heap, ccv, writers, pipeVars, metricVars, threadVars, fnVars, callVars>>

\* context.get_request_context().add_token_usage(usage) in task t: reads the
\* object's token_usage and writes the sums back
CoreAddTokenUsage(t) ==
    /\ \E usage \in Usages :
         /\ heap[CoreCurrentContext(t)].token_usage.total_tokens + usage.total_tokens
               <= TokenCap
         /\ heap' = [heap EXCEPT ![CoreCurrentContext(t)].token_usage =
                                    AddTokenUsage(@, usage)]
    /\ writers' = writers \cup {<<t, CoreCurrentContext(t)>>}
    /\ observed' = Reading(t, CoreCurrentContext(t))
    /\ UNCHANGED <<cv, tok, ccv, pipeVars, metricVars, threadVars, fnVars, callVars>>

InitContext ==
    /\ PipeInit /\ CtxInit /\ MetricsInit /\ ThreadInit /\ CallInit /\ FnInit
    /\ apiKey = TRUE

NextContext ==
    \E t \in Requests :
        \/ CtxSet(t)
        \/ CtxReset(t)
        \/ CtxGet(t)
        \/ CtxUpdate(t)
        \/ CtxRecordUsage(t)
        \/ CoreSet(t)
        \/ CoreGet(t)
        \/ CoreAddTokenUsage(t)

SpecContext == InitContext /\ [][NextContext]_vars

\* C9 as stated: no task observes what another task has written into a
\* context object, and no context object is written by two tasks: whatever a
\* task reads or updates through either store is its own context, also when
\* it has set no context.
C9_ContextIsolation ==
    /\ \A p \in observed : p[1] = p[2]
    /\ \A a, b \in writers : a[2] = b[2] => a[1] = b[1]

\* The part of C9 that holds: a dict of core/observability.py is written only
\* by the task that set it, and carries that task's request_id.
ObservabilityIsolation ==
    /\ \A a \in writers :
          (a[2] # DefaultObj /\ a[2] \notin {ccv[t] : t \in Requests})
          => cv[a[1]] = a[2]
    /\ \A t \in Requests : cv[t] # Unset => heap[cv[t]].request_id = t

\* =============================================================== SpecPrune
\* _validate_and_clean_json applied to the JSON values json.loads can give.
\* A Python str is the sequence of its characters.

\* Longest list of scalars among the modelled payloads.
MaxListLen == 2

\* JSON values: None, a str, a number, a list, a dict (keys[i] maps to kids[i],
\* in insertion order).
JNull == [t |-> "null", s |-> <<>>, keys |-> <<>>, kids |-> <<>>]

JStr(str) == [t |-> "str", s |-> str, keys |-> <<>>, kids |-> <<>>]

JZero == [t |-> "num", s |-> <<>>, keys |-> <<>>, kids |-> <<>>]

JList(items) == [t |-> "list", s |-> <<>>, keys |-> <<>>, kids |-> items]

JDict(ks, vs) == [t |-> "dict", s |-> <<>>, keys |-> ks, kids |-> vs]

\* Python truthiness of a JSON value (`not data`, `if cleaned`).
Truthy(v) ==
    CASE v.t = "null" -> FALSE
      [] v.t = "str"  -> v.s # <<>>
      [] v.t = "num"  -> FALSE
      [] v.t = "list" -> v.kids # <<>>
      [] v.t = "dict" -> v.kids # <<>>

\* The indices of items, in order, whose item is not in drop.
KeptIndices(items, drop) ==
    LET Keep(i) == items[i] \notin drop
    IN  SelectSeq([i \in 1..Len(items) |-> i], Keep)

\* clean_dict: a dict keeps the keys whose (uncleaned) value is not None, ""
\* or [], each with its value cleaned; a list keeps the (uncleaned) items that
\* are not None or "", each cleaned, and is None when nothing is kept;
\* anything else is returned as it is.
RECURSIVE clean_dict(_)
clean_dict(d) ==
    CASE d.t = "dict" ->
            LET idx == KeptIndices(d.kids, {JNull, JStr(<<>>), JList(<<>>)})
            IN  JDict([i \in 1..Len(idx) |-> d.keys[idx[i]]],
                      [i \in 1..Len(idx) |-> clean_dict(d.kids[idx[i]])])
      [] d.t = "list" ->
            LET idx == KeptIndices(d.kids, {JNull, JStr(<<>>)})
                cleaned == [i \in 1..Len(idx) |-> clean_dict(d.kids[idx[i]])]
            IN  IF cleaned # <<>> THEN JList(cleaned) ELSE JNull
      [] OTHER -> d

\* _validate_and_clean_json(data)
validate_and_clean_json(d) ==
    IF ~Truthy(d) \/ d.t # "dict"
    THEN Raised(Exc("LLMClientError", <<"Invalid JSON structure received from LLM">>))
    ELSE IF ~Truthy(clean_dict(d))
    THEN Raised(Exc("LLMClientError", <<"All fields are empty after cleaning">>))
    ELSE Returned(clean_dict(d))

\* The payloads: scalars, lists of scalars, one-key dicts, one more level of
\* list or dict around those, under one or two top-level keys.
Scalars == {JNull, JStr(<<>>), JStr(<<" ">>), JStr(<<"x">>), JZero}

RECURSIVE ListsOf(_, _)
ListsOf(S, n) ==
    IF n = 0 THEN {<<>>}
    ELSE ListsOf(S, n - 1) \cup {Append(l, v) : l \in ListsOf(S, n - 1), v \in S}

Flat == Scalars
        \cup {JList(l) : l \in ListsOf({JNull, JStr(<<>>), JStr(<<"x">>)}, MaxListLen)}
        \cup {JDict(<<>>, <<>>)} \cup {JDict(<<"k">>, <<v>>) : v \in Scalars}

Nested == Flat \cup {JList(<<v>>) : v \in Flat \ Scalars}
               \cup {JDict(<<"k">>, <<v>>) : v \in Flat \ Scalars}

Payloads ==
    {JDict(<<>>, <<>>), JList(<<JStr(<<"x">>)>>)}
    \cup {JDict(<<"a">>, <<v>>) : v \in Nested}
    \cup {JDict(<<"a", "d">>, <<v, w>>) : v \in Nested, w \in {JNull, JStr(<<"x">>)}}

InitPrune ==
    /\ PipeInit /\ CtxInit /\ MetricsInit /\ ThreadInit /\ CallInit
    /\ apiKey = TRUE
    /\ data \in {Returned(v) : v \in Payloads}
    /\ cleaned_data = NotCalled
    /\ value = NotCalled
    /\ max_length = 0
    /\ allow_atual = FALSE
    /\ text = NotCalled
    /\ resume_data = NotCalled
    /\ normalized = NotCalled

\* cleaned = _validate_and_clean_json(data)
Prune ==
    /\ ~Called(cleaned_data)
    /\ cleaned_data' = validate_and_clean_json(data.value)
    /\ UNCHANGED <<data, value, max_length, allow_atual, text, resume_data,
                   normalized, pipeVars, ctxVars, metricVars, threadVars, callVars>>

NextPrune == Prune

SpecPrune == InitPrune /\ [][NextPrune]_vars

\* A value that pruning is meant to remove: null, "" or an empty sequence.
IsEmptyValue(v) == v \in {JNull, JStr(<<>>), JList(<<>>)}

\* Some dict inside v, at any depth, maps a key to an empty value.
RECURSIVE HasEmptyEntry(_)
HasEmptyEntry(v) ==
    \/ v.t = "dict" /\ \E i \in 1..Len(v.kids) : IsEmptyValue(v.kids[i])
    \/ \E i \in 1..Len(v.kids) : HasEmptyEntry(v.kids[i])

\* C12 as stated: whenever pruning returns, no dict of the result, at any
\* depth, has a key whose value is null, "" or an empty sequence.
C12_NoEmptyValuesLeft ==
    cleaned_data.ok => ~HasEmptyEntry(cleaned_data.value)

\* v carries a usable value: some scalar in it is a non-empty str or a number.
RECURSIVE HasUsableValue(_)
HasUsableValue(v) ==
    \/ v.t = "str" /\ v.s # <<>>
    \/ v.t = "num"
    \/ \E i \in 1..Len(v.kids) : HasUsableValue(v.kids[i])

\* C13 as stated: pruning raises LLMClientError exactly when the payload has
\* nothing usable left, and a payload it returns carries a usable value.
C13_EmptyPayloadRejected ==
    Called(cleaned_data)
    => /\ ~HasUsableValue(data.value)
          => (~cleaned_data.ok /\ cleaned_data.err.kind = "LLMClientError")
       /\ cleaned_data.ok => HasUsableValue(cleaned_data.value)

\* ================================================================ SpecText
\* core/normalization.py clean_text.  A str is the sequence of its characters;
\* a character is written as a one-character string, except
\*   "emoji"      one code point of EMOJI_PATTERN (U+1F600)
\*   "c_cedilla"  U+00E7, and "C_cedilla" U+00C7.

\* Most pieces a modelled text input is made of.
MaxPieces == 3

\* Largest max_length tried on the modelled text inputs.
MaxLimit == 3

\* Optional[str]
None == [some |-> FALSE, s |-> <<>>]

Some(str) == [some |-> TRUE, s |-> str]

\* The element of a one-element set.  {F(x) : x \in {e}} gives x the value of
\* e once, as an assignment to a local variable does.
Only(S) == CHOOSE x \in S : TRUE

\* The characters \s matches and str.strip() / str.rstrip() remove.
IsSpace(c) == c \in {" ", "\n", "\t"}

\* html.entities.html5, the entries whose names the modelled inputs can spell.
html5 ==
    {<<(<<"a", "m", "p", ";">>), <<"&">>>>, <<(<<"a", "m", "p">>), <<"&">>>>,
     <<(<<"l", "t", ";">>), <<"<">>>>,      <<(<<"l", "t">>), <<"<">>>>,
     <<(<<"g", "t", ";">>), <<">">>>>,      <<(<<"g", "t">>), <<">">>>>}

IsEntity(name) == \E e \in html5 : e[1] = name

EntityValue(name) == (CHOOSE e \in html5 : e[1] = name)[2]

\* html.unescape's pattern after "&": [^\t\n\f <&#;]{1,32};?  The length of
\* the name it matches at the start of s (0: no match).
RECURSIVE NameRun(_)
NameRun(s) ==
    IF s = <<>> \/ Head(s) \in {"\t", "\n", " ", "<", "&", "#", ";"} THEN 0
    ELSE 1 + NameRun(Tail(s))

CharrefLen(s) ==
    LET n == IF NameRun(s) <= 32 THEN NameRun(s) ELSE 32
    IN  IF n = 0 THEN 0
        ELSE IF n < Len(s) /\ s[n + 1] = ";" THEN n + 1 ELSE n

\* html._replace_charref for a named reference: the entity, else the longest
\* proper prefix of at least two characters that is an entity followed by the
\* rest, else the text unchanged.
replace_charref(name) ==
    IF IsEntity(name) THEN EntityValue(name)
    ELSE LET xs == {x \in 2..(Len(name) - 1) : IsEntity(SubSeq(name, 1, x))}
         IN  IF xs = {} THEN <<"&">> \o name
             ELSE LET x == CHOOSE y \in xs : \A z \in xs : z <= y
                  IN  EntityValue(SubSeq(name, 1, x)) \o SubSeq(name, x + 1, Len(name))

\* html.unescape(value): each reference is replaced once, left to right; what
\* a replacement produces is not scanned again.
RECURSIVE unescape(_)
unescape(s) ==
    IF s = <<>> THEN <<>>
    ELSE IF Head(s) # "&" \/ CharrefLen(Tail(s)) = 0
    THEN <<Head(s)>> \o unescape(Tail(s))
    ELSE LET n == CharrefLen(Tail(s))
         IN  replace_charref(SubSeq(s, 2, n + 1)) \o unescape(SubSeq(s, n + 2, Len(s)))

\* Index of the first ">" of s, 0 when there is none.
RECURSIVE FirstClose(_)
FirstClose(s) ==
    IF s = <<>> THEN 0
    ELSE IF Head(s) = ">" THEN 1
    ELSE IF FirstClose(Tail(s)) = 0 THEN 0 ELSE 1 + FirstClose(Tail(s))

\* strip_html: HTML_TAG_PATTERN <[^>]+> replaced by " ", leftmost first.
RECURSIVE strip_html(_)
strip_html(s) ==
    IF s = <<>> THEN <<>>
    ELSE IF Head(s) = "<" /\ FirstClose(Tail(s)) >= 2
    THEN <<" ">> \o strip_html(SubSeq(s, FirstClose(Tail(s)) + 2, Len(s)))
    ELSE <<Head(s)>> \o strip_html(Tail(s))

\* remove_emoji: EMOJI_PATTERN replaced by "".
remove_emoji(s) ==
    LET NotEmoji(c) == c # "emoji" IN SelectSeq(s, NotEmoji)

RECURSIVE lstrip(_)
lstrip(s) == IF s # <<>> /\ IsSpace(Head(s)) THEN lstrip(Tail(s)) ELSE s

RECURSIVE rstrip(_)
rstrip(s) ==
    IF s # <<>> /\ IsSpace(s[Len(s)]) THEN rstrip(SubSeq(s, 1, Len(s) - 1)) ELSE s

\* WHITESPACE_PATTERN \s+ replaced by " "
RECURSIVE CollapseSpaces(_)
CollapseSpaces(s) ==
    IF s = <<>> THEN <<>>
    ELSE IF IsSpace(Head(s)) THEN <<" ">> \o CollapseSpaces(lstrip(s))
    ELSE <<Head(s)>> \o CollapseSpaces(Tail(s))

\* normalize_whitespace
normalize_whitespace(s) == rstrip(lstrip(CollapseSpaces(s)))

\* A cut one character late, against which C20 is tested.
SliceOneMore(s, n) == SubSeq(s, 1, IF n + 1 <= Len(s) THEN n + 1 ELSE Len(s))

\* text[:max_length] for max_length >= 0
Slice(s, n) == SubSeq(s, 1, IF n <= Len(s) THEN n ELSE Len(s))

\* The text clean_text has before it looks at max_length.
Sanitized(str) ==
    Only({normalize_whitespace(t3) :
            t3 \in {remove_emoji(t2) :
                      t2 \in {strip_html(t1) : t1 \in {unescape(str)}}}})

\* clean_text(value, max_length)
clean_text(v, n) ==
    IF ~v.some THEN None
    ELSE Only({IF t = <<>> THEN None
               ELSE IF Len(t) > n THEN Some(rstrip(Slice(t, n)))
               ELSE Some(t) : t \in {Sanitized(v.s)}})

\* The pieces the text inputs are made of: letters, the two kinds of
\* whitespace, markup characters, character references and an emoji.
Pieces ==
    {<<"x">>, <<" ">>, <<"\n">>, <<"<">>, <<">">>, <<"&">>, <<"emoji">>,
     <<"a", "m", "p", ";">>, <<"l", "t", ";">>, <<"g", "t">>}

RECURSIVE Texts(_)
Texts(n) ==
    IF n = 0 THEN {<<>>}
    ELSE Texts(n - 1) \cup {t \o q : t \in Texts(n - 1), q \in Pieces}

InitText ==
    /\ PipeInit /\ CtxInit /\ MetricsInit /\ ThreadInit /\ CallInit
    /\ apiKey = TRUE
    /\ data = NotCalled
    /\ cleaned_data = NotCalled
    /\ value \in {Returned(None)} \cup {Returned(Some(t)) : t \in Texts(MaxPieces)}
    /\ max_length \in 0..MaxLimit
    /\ allow_atual = FALSE
    /\ text = NotCalled
    /\ resume_data = NotCalled
    /\ normalized = NotCalled

\* text = clean_text(value, max_length)
CleanText ==
    /\ ~Called(text)
    /\ text' = Returned(clean_text(value.value, max_length))
    /\ UNCHANGED <<data, cleaned_data, value, max_length, allow_atual, resume_data,
                   normalized, pipeVars, ctxVars, metricVars, threadVars, callVars>>

NextText == CleanText

SpecText == InitText /\ [][NextText]_vars

\* C20: clean_text(s, L) is None or a str of at most L characters; when the
\* sanitized text is longer than L the result is its first L characters
\* without the whitespace at their end: a prefix of the sanitized text that
\* ends in no whitespace and is followed, up to position L, by whitespace only.
C20_LengthWithinLimit ==
    text.ok
    => \/ ~text.value.some
       \/ LET out == text.value.s
              full == Sanitized(value.value.s)
          IN  /\ Len(out) <= max_length
              /\ out = SubSeq(full, 1, Len(out))
              /\ out = <<>> \/ ~IsSpace(out[Len(out)])
              /\ Len(full) <= max_length => out = full
              /\ Len(full) > max_length
                 => \A i \in (Len(out) + 1)..max_length : IsSpace(full[i])

C20_Witness ==
    /\ text.ok /\ text.value.some
    /\ max_length = 2
    /\ Len(text.value.s) = 1
    /\ Sanitized(value.value.s) = <<"x", " ", "x">>

\* ================================================================ SpecDate
\* core/normalization.py normalize_date.

\* Largest month number written in the modelled numeric dates.
MaxMonthNumber == 13

\* The longest text normalize_date keeps: clean_text(value, max_length=40).
DateMaxLength == 40

DigitChars == <<"0", "1", "2", "3", "4", "5", "6", "7", "8", "9">>

IsDigit(c) == \E i \in 1..10 : DigitChars[i] = c

DigitValue(c) == (CHOOSE i \in 1..10 : DigitChars[i] = c) - 1

AllDigits(str) == \A i \in 1..Len(str) : IsDigit(str[i])

\* int(month) for a str of digits
RECURSIVE ToInt(_)
ToInt(str) ==
    IF str = <<>> THEN 0
    ELSE 10 * ToInt(SubSeq(str, 1, Len(str) - 1)) + DigitValue(str[Len(str)])

\* f"{month_num:02d}" for a month number
TwoDigits(n) == <<DigitChars[(n \div 10) + 1], DigitChars[(n % 10) + 1]>>

\* f"{year}-{month_num:02d}"
YearMonth(year, n) == year \o <<"-">> \o TwoDigits(n)

LowerLetters ==
    <<"a", "b", "c", "d", "e", "f", "g", "h", "i", "j", "k", "l", "m", "n", "o",
      "p", "q", "r", "s", "t", "u", "v", "w", "x", "y", "z", "c_cedilla">>

UpperLetters ==
    <<"A", "B", "C", "D", "E", "F", "G", "H", "I", "J", "K", "L", "M", "N", "O",
      "P", "Q", "R", "S", "T", "U", "V", "W", "X", "Y", "Z", "C_cedilla">>

IsUpper(c) == \E i \in 1..Len(UpperLetters) : UpperLetters[i] = c

IsLower(c) == \E i \in 1..Len(LowerLetters) : LowerLetters[i] = c

\* A comparison that keeps the case as written, against which C16 is tested.
CaseKept(c) == c

\* str.lower() on one character
LowerChar(c) ==
    IF IsUpper(c) THEN LowerLetters[CHOOSE i \in 1..Len(UpperLetters) : UpperLetters[i] = c]
    ELSE c

lower(str) == [i \in 1..Len(str) |-> LowerChar(str[i])]

\* Month names in English and Portuguese (lowercase)
MONTH_ALIASES ==
    {<<<<"j", "a", "n", "u", "a", "r", "y">>, 1>>,
     <<<<"j", "a", "n">>, 1>>,
     <<<<"j", "a", "n", "e", "i", "r", "o">>, 1>>,
     <<<<"j", "a", "n", ".">>, 1>>,
     <<<<"f", "e", "b", "r", "u", "a", "r", "y">>, 2>>,
     <<<<"f", "e", "b">>, 2>>,
     <<<<"f", "e", "v">>, 2>>,
     <<<<"f", "e", "v", "e", "r", "e", "i", "r", "o">>, 2>>,
     <<<<"m", "a", "r">>, 3>>,
     <<<<"m", "a", "r", "c", "h">>, 3>>,
     <<<<"m", "a", "r", "c_cedilla", "o">>, 3>>,
     <<<<"m", "a", "r", "c", "o">>, 3>>,
     <<<<"a", "p", "r">>, 4>>,
     <<<<"a", "p", "r", ".">>, 4>>,
     <<<<"a", "p", "r", "i", "l">>, 4>>,
     <<<<"a", "b", "r", "i", "l">>, 4>>,
     <<<<"m", "a", "y">>, 5>>,
     <<<<"m", "a", "i", "o">>, 5>>,
     <<<<"j", "u", "n">>, 6>>,
     <<<<"j", "u", "n", "e">>, 6>>,
     <<<<"j", "u", "n", "h", "o">>, 6>>,
     <<<<"j", "u", "l">>, 7>>,
     <<<<"j", "u", "l", "y">>, 7>>,
     <<<<"j", "u", "l", "h", "o">>, 7>>,
     <<<<"a", "u", "g">>, 8>>,
     <<<<"a", "u", "g", "u", "s", "t">>, 8>>,
     <<<<"a", "g", "o", "s", "t", "o">>, 8>>,
     <<<<"s", "e", "p">>, 9>>,
     <<<<"s", "e", "p", "t">>, 9>>,
     <<<<"s", "e", "p", "t", "e", "m", "b", "e", "r">>, 9>>,
     <<<<"s", "e", "t">>, 9>>,
     <<<<"s", "e", "t", "e", "m", "b", "r", "o">>, 9>>,
     <<<<"o", "c", "t">>, 10>>,
     <<<<"o", "c", "t", "o", "b", "e", "r">>, 10>>,
     <<<<"o", "u", "t">>, 10>>,
     <<<<"o", "u", "t", "u", "b", "r", "o">>, 10>>,
     <<<<"n", "o", "v">>, 11>>,
     <<<<"n", "o", "v", "e", "m", "b", "e", "r">>, 11>>,
     <<<<"n", "o", "v", "e", "m", "b", "r", "o">>, 11>>,
     <<<<"d", "e", "c">>, 12>>,
     <<<<"d", "e", "c", "e", "m", "b", "e", "r">>, 12>>,
     <<<<"d", "e", "z">>, 12>>,
     <<<<"d", "e", "z", "e", "m", "b", "r", "o">>, 12>>}

\* MONTH_ALIASES.get(name): the month number, 0 standing for None.
MonthAlias(name) ==
    IF \E e \in MONTH_ALIASES : e[1] = name
    THEN (CHOOSE e \in MONTH_ALIASES : e[1] = name)[2]
    ELSE 0

\* {"atual", "current", "present", "ongoing", "now"}
SentinelWords ==
    {<<"a", "t", "u", "a", "l">>, <<"c", "u", "r", "r", "e", "n", "t">>,
     <<"p", "r", "e", "s", "e", "n", "t">>, <<"o", "n", "g", "o", "i", "n", "g">>,
     <<"n", "o", "w">>}

\* return "Atual"
Atual == <<"A", "t", "u", "a", "l">>

\* A month test without the upper limit, against which C14 is tested.
AtLeastOne(n) == 1 <= n

\* 1 <= month_num <= 12
ValidMonth(n) == 1 <= n /\ n <= 12

\* ^(\d{4})[-/\.](\d{1,2})$
MatchesYearMonth(raw) ==
    /\ Len(raw) \in {6, 7}
    /\ AllDigits(SubSeq(raw, 1, 4))
    /\ raw[5] \in {"-", "/", "."}
    /\ AllDigits(SubSeq(raw, 6, Len(raw)))

\* ^(\d{1,2})[-/\.](\d{4})$
MatchesMonthYear(raw) ==
    /\ Len(raw) \in {6, 7}
    /\ AllDigits(SubSeq(raw, 1, Len(raw) - 5))
    /\ raw[Len(raw) - 4] \in {"-", "/", "."}
    /\ AllDigits(SubSeq(raw, Len(raw) - 3, Len(raw)))

\* Length of the longest prefix of str in [A-Za-zçÇ\.]
RECURSIVE NameLen(_)
NameLen(str) ==
    IF str # <<>> /\ (IsLower(Head(str)) \/ IsUpper(Head(str)) \/ Head(str) = ".")
    THEN 1 + NameLen(Tail(str))
    ELSE 0

\* ^([A-Za-zçÇ\.]+)[\s\-/,\.]*(\d{4})$ : the name group takes every
\* leading letter and period; what is left before the year must be separators.
MatchesNameYear(str) ==
    /\ Len(str) >= 5
    /\ AllDigits(SubSeq(str, Len(str) - 3, Len(str)))
    /\ NameLen(SubSeq(str, 1, Len(str) - 4)) >= 1
    /\ \A i \in (NameLen(SubSeq(str, 1, Len(str) - 4)) + 1)..(Len(str) - 4) :
          IsSpace(str[i]) \/ str[i] \in {"-", "/", ",", "."}

\* month_name.strip(". ")
RECURSIVE StripDotSpace(_)
StripDotSpace(str) ==
    IF str # <<>> /\ Head(str) \in {".", " "} THEN StripDotSpace(Tail(str))
    ELSE IF str # <<>> /\ str[Len(str)] \in {".", " "}
    THEN StripDotSpace(SubSeq(str, 1, Len(str) - 1))
    ELSE str

\* ^(\d{4})$
MatchesYear(raw) == Len(raw) = 4 /\ AllDigits(raw)

\* normalize_date(value, allow_atual): the patterns are tried in source order,
\* a pattern that matches with a month it does not accept falls through.
normalize_date(v, allow) ==
    Only({Only({
        LET name == StripDotSpace(SubSeq(lowered, 1, NameLen(lowered)))
        IN  IF ~raw.some
            THEN Raised(Exc("ValueError", <<"Date value is empty after normalization">>))
            ELSE IF allow /\ lowered \in SentinelWords
            THEN Returned(Atual)
            ELSE IF MatchesYearMonth(raw.s)
                    /\ ValidMonth(ToInt(SubSeq(raw.s, 6, Len(raw.s))))
            THEN Returned(YearMonth(SubSeq(raw.s, 1, 4),
                                    ToInt(SubSeq(raw.s, 6, Len(raw.s)))))
            ELSE IF MatchesMonthYear(raw.s)
                    /\ ValidMonth(ToInt(SubSeq(raw.s, 1, Len(raw.s) - 5)))
            THEN Returned(YearMonth(SubSeq(raw.s, Len(raw.s) - 3, Len(raw.s)),
                                    ToInt(SubSeq(raw.s, 1, Len(raw.s) - 5))))
            ELSE IF MatchesNameYear(lowered) /\ MonthAlias(name) # 0
            THEN Returned(YearMonth(SubSeq(lowered, Len(lowered) - 3, Len(lowered)),
                                    MonthAlias(name)))
            ELSE IF MatchesYear(raw.s)
            THEN Returned(raw.s \o <<"-", "0", "1">>)
            ELSE Raised(Exc("ValueError", <<"Invalid date format">>))
        : lowered \in {<<>> \o lower(raw.s)}})
      : raw \in {clean_text(v, DateMaxLength)}})

\* ---- the dates tried
Years == {<<"2", "0", "2", "1">>, <<"1", "9", "9", "8">>}

\* A month number written with one digit (when it has one) or with two.
Numerals(n) == {TwoDigits(n)} \cup (IF n < 10 THEN {<<DigitChars[n + 1]>>} ELSE {})

NumericDates ==
    {y \o sep \o m : y \in Years, sep \in {<<"-">>, <<"/">>, <<".">>, <<" ">>},
                     m \in UNION {Numerals(n) : n \in 0..MaxMonthNumber}}
    \cup {m \o sep \o y : y \in Years, sep \in {<<"-">>, <<"/">>, <<".">>, <<" ">>},
                          m \in UNION {Numerals(n) : n \in 0..MaxMonthNumber}}
    \cup Years

\* A lowercase word as it may be written: as it is, capitalised, in capitals.
UpperChar(c) ==
    IF IsLower(c) THEN UpperLetters[CHOOSE i \in 1..Len(LowerLetters) : LowerLetters[i] = c]
    ELSE c

Written(w) ==
    {w, [i \in 1..Len(w) |-> UpperChar(w[i])],
        [i \in 1..Len(w) |-> IF i = 1 THEN UpperChar(w[i]) ELSE w[i]]}

\* Month names in English and Portuguese, full and abbreviated, by month.
MonthNames ==
    {<<<<"j", "a", "n", "u", "a", "r", "y">>, 1>>,
     <<<<"j", "a", "n">>, 1>>,
     <<<<"j", "a", "n", "e", "i", "r", "o">>, 1>>,
     <<<<"f", "e", "b", "r", "u", "a", "r", "y">>, 2>>,
     <<<<"f", "e", "b">>, 2>>,
     <<<<"f", "e", "v", "e", "r", "e", "i", "r", "o">>, 2>>,
     <<<<"f", "e", "v">>, 2>>,
     <<<<"m", "a", "r", "c", "h">>, 3>>,
     <<<<"m", "a", "r">>, 3>>,
     <<<<"m", "a", "r", "c_cedilla", "o">>, 3>>,
     <<<<"a", "p", "r", "i", "l">>, 4>>,
     <<<<"a", "p", "r">>, 4>>,
     <<<<"a", "b", "r", "i", "l">>, 4>>,
     <<<<"a", "b", "r">>, 4>>,
     <<<<"m", "a", "y">>, 5>>,
     <<<<"m", "a", "i", "o">>, 5>>,
     <<<<"m", "a", "i">>, 5>>,
     <<<<"j", "u", "n", "e">>, 6>>,
     <<<<"j", "u", "n">>, 6>>,
     <<<<"j", "u", "n", "h", "o">>, 6>>,
     <<<<"j", "u", "l", "y">>, 7>>,
     <<<<"j", "u", "l">>, 7>>,
     <<<<"j", "u", "l", "h", "o">>, 7>>,
     <<<<"a", "u", "g", "u", "s", "t">>, 8>>,
     <<<<"a", "u", "g">>, 8>>,
     <<<<"a", "g", "o", "s", "t", "o">>, 8>>,
     <<<<"a", "g", "o">>, 8>>,
     <<<<"s", "e", "p", "t", "e", "m", "b", "e", "r">>, 9>>,
     <<<<"s", "e", "p">>, 9>>,
     <<<<"s", "e", "t", "e", "m", "b", "r", "o">>, 9>>,
     <<<<"s", "e", "t">>, 9>>,
     <<<<"o", "c", "t", "o", "b", "e", "r">>, 10>>,
     <<<<"o", "c", "t">>, 10>>,
     <<<<"o", "u", "t", "u", "b", "r", "o">>, 10>>,
     <<<<"o", "u", "t">>, 10>>,
     <<<<"n", "o", "v", "e", "m", "b", "e", "r">>, 11>>,
     <<<<"n", "o", "v">>, 11>>,
     <<<<"n", "o", "v", "e", "m", "b", "r", "o">>, 11>>,
     <<<<"d", "e", "c", "e", "m", "b", "e", "r">>, 12>>,
     <<<<"d", "e", "c">>, 12>>,
     <<<<"d", "e", "z", "e", "m", "b", "r", "o">>, 12>>,
     <<<<"d", "e", "z">>, 12>>}

\* What may stand between a month name and the year.
Connectives == {<<" ">>, <<" ", "d", "e", " ">>, <<".", " ">>, <<".", " ", "d", "e", " ">>,
                <<"/">>, <<",", " ">>}

NameDates ==
    {w \o c \o <<"2", "0", "2", "1">> :
        w \in UNION {Written(e[1]) : e \in MonthNames}, c \in Connectives}

SentinelDates ==
    UNION {Written(w) : w \in SentinelWords}
    \cup {<<" ">> \o w \o <<"\n">> : w \in UNION {Written(w) : w \in SentinelWords}}

DateValues == NumericDates \cup NameDates \cup SentinelDates \cup {<<>>, <<" ">>}

InitDate ==
    /\ PipeInit /\ CtxInit /\ MetricsInit /\ ThreadInit /\ CallInit
    /\ apiKey = TRUE
    /\ data = NotCalled
    /\ cleaned_data = NotCalled
    /\ value \in {Returned(Some(d)) : d \in DateValues}
    /\ max_length = DateMaxLength
    /\ allow_atual \in BOOLEAN
    /\ text = NotCalled
    /\ resume_data = NotCalled
    /\ normalized = NotCalled

\* text = normalize_date(value, allow_atual)
NormalizeDate ==
    /\ ~Called(text)
    /\ text' = normalize_date(value.value, allow_atual)
    /\ UNCHANGED <<data, cleaned_data, value, max_length, allow_atual, resume_data,
                   normalized, pipeVars, ctxVars, metricVars, threadVars, callVars>>

NextDate == NormalizeDate

SpecDate == InitDate /\ [][NextDate]_vars

\* The call failed with the invalid-date error.
InvalidDate == ~text.ok /\ text.err.kind = "ValueError"

\* C14: for every 4-digit year Y, separator in - / . and month number M
\* written with one or two digits, "Y<sep>M" and "M<sep>Y" give "Y-MM" when
\* M is in 1..12 and the invalid-date error otherwise; a bare year Y gives
\* "Y-01".  (Whatever allow_atual is.)
C14_NumericDates ==
    Called(text)
    => /\ \A y \in Years, n \in 0..MaxMonthNumber, sep \in {<<"-">>, <<"/">>, <<".">>} :
            \A m \in Numerals(n) :
                value.value.s \in {y \o sep \o m, m \o sep \o y}
                => IF n \in 1..12
                   THEN text.ok /\ text.value = y \o <<"-">> \o TwoDigits(n)
                   ELSE InvalidDate
       /\ \A y \in Years :
            value.value.s = y => (text.ok /\ text.value = y \o <<"-", "0", "1">>)

C14_Witness ==
    /\ value.value.s = <<"7", "/", "2", "0", "2", "1">>
    /\ text.ok /\ text.value = <<"2", "0", "2", "1", "-", "0", "7">>

\* C15 as stated: a month name in English or Portuguese, full or abbreviated,
\* in any of the three writings, with or without a trailing period, followed
\* by a 4-digit year, directly or with the Portuguese "de" in between, gives
\* "YYYY-MM" for that month.
C15_MonthNames ==
    Called(text)
    => \A e \in MonthNames :
         \A w \in Written(e[1]),
            c \in {<<" ">>, <<" ", "d", "e", " ">>, <<".", " ">>, <<".", " ", "d", "e", " ">>} :
             value.value.s = w \o c \o <<"2", "0", "2", "1">>
             => (text.ok /\ text.value = <<"2", "0", "2", "1", "-">> \o TwoDigits(e[2]))

\* C16: each sentinel word, in any of the three writings and with whitespace
\* around it or not, gives "Atual" (the same token for every word) when
\* allow_atual is true, and the invalid-date error when it is false.
C16_Sentinels ==
    (Called(text) /\ value.value.s \in SentinelDates)
    => IF allow_atual THEN text.ok /\ text.value = Atual ELSE InvalidDate

C16_Witness ==
    /\ value.value.s = <<"O", "N", "G", "O", "I", "N", "G">>
    /\ allow_atual
    /\ text.ok /\ text.value = Atual

\* ============================================================== SpecResume
\* core/normalization.py normalize_resume_payload.  A payload is a record with
\* every key the function reads; a str value under a key is Some(str), an
\* absent key is None, a list is a sequence.

MAX_NAME_LENGTH == 120

MAX_JOB_TITLE_LENGTH == 120

MAX_INTRO_LENGTH == 1200

MAX_BULLET_LENGTH == 320

MAX_TECH_ITEM_LENGTH == 60

MAX_LOCATION_LENGTH == 120

MAX_EDU_FIELD_LENGTH == 160

MAX_LANGUAGE_NAME_LENGTH == 60

MAX_EXTERNAL_LABEL_LENGTH == 80

MAX_EXTERNAL_URL_LENGTH == 220

MAX_CONTACT_FIELD_LENGTH == 120

\* clean_text(lang.get("level"), 10)
LevelMaxLength == 10

\* return combined[:10]
MaxKeywords == 10

\* RAW_TECH_KEYWORDS, in source order, the entries the modelled texts can contain.
RAW_TECH_KEYWORDS == << <<"G", "o">>, <<"C">> >>

\* \w
IsWordChar(c) == IsLower(c) \/ IsUpper(c) \/ IsDigit(c) \/ c = "_"

\* pattern.search(text) for (?<!\w)keyword(?!\w) with re.IGNORECASE
KeywordFound(keyword, txt) ==
    \E i \in 1..(Len(txt) - Len(keyword) + 1) :
        /\ lower(SubSeq(txt, i, i + Len(keyword) - 1)) = lower(keyword)
        /\ i = 1 \/ ~IsWordChar(txt[i - 1])
        /\ i + Len(keyword) > Len(txt) \/ ~IsWordChar(txt[i + Len(keyword)])

\* The loops of extract_tech_keywords from text number i, keyword number k on,
\* with the labels combined so far.
RECURSIVE KeywordScan(_, _, _, _)
KeywordScan(texts, i, k, combined) ==
    IF i > Len(texts) THEN combined
    ELSE IF k > Len(RAW_TECH_KEYWORDS) \/ ~texts[i].some \/ texts[i].s = <<>>
    THEN KeywordScan(texts, i + 1, 1, combined)
    ELSE IF (\A j \in 1..Len(combined) : combined[j] # RAW_TECH_KEYWORDS[k])
            /\ KeywordFound(RAW_TECH_KEYWORDS[k], texts[i].s)
    THEN KeywordScan(texts, i, k + 1, Append(combined, RAW_TECH_KEYWORDS[k]))
    ELSE KeywordScan(texts, i, k + 1, combined)

\* extract_tech_keywords(*texts)
extract_tech_keywords(texts) ==
    Only({Slice(combined, MaxKeywords) :
            combined \in {KeywordScan(t, 1, 1, <<>>) : t \in {texts}}})

\* clean_text(...) or ""
OrEmpty(o) == IF o.some THEN o.s ELSE <<>>

\* The items of a list of str that are non-empty once cleaned, cleaned.
RECURSIVE CleanedItems(_, _)
CleanedItems(items, n) ==
    IF items = <<>> THEN <<>>
    ELSE IF clean_text(Some(Head(items)), n).some
    THEN <<clean_text(Some(Head(items)), n).s>> \o CleanedItems(Tail(items), n)
    ELSE CleanedItems(Tail(items), n)

\* The tech_stack without the items whose lower-case form was seen before.
\* The de-duplication loop of lines 315-324 left out (the cleaned list kept as
\* it is), against which C27 is tested.
NotDeduped(items, seen_items) == items

RECURSIVE Deduped(_, _)
Deduped(items, seen_items) ==
    IF items = <<>> THEN <<>>
    ELSE IF lower(Head(items)) \in seen_items THEN Deduped(Tail(items), seen_items)
    ELSE <<Head(items)>> \o Deduped(Tail(items), seen_items \cup {lower(Head(items))})

\* exp.get("start_date", ""): the value, "" for an absent key
GetOrEmpty(o) == IF o.some THEN o ELSE Some(<<>>)

\* normalize_date(exp.get("start_date", "")): allow_atual is left at its
\* default, True.
ExperienceStartAllowAtual == TRUE

\* normalize_date(exp.get("end_date", ""), allow_atual=True)
ExperienceEndAllowAtual == TRUE

\* A call that lets the sentinel through for education, against which C18 is tested.
EducationAtualAllowed == TRUE

\* normalize_date(edu.get(...), allow_atual=False)
EducationAllowAtual == FALSE

\* The normalize_date calls of normalize_resume_payload, in the order made.
ExperienceDates(d) ==
    [i \in 1..(2 * Len(d.experiences)) |->
        IF i % 2 = 1
        THEN normalize_date(GetOrEmpty(d.experiences[(i + 1) \div 2].start_date),
                            ExperienceStartAllowAtual)
        ELSE normalize_date(GetOrEmpty(d.experiences[i \div 2].end_date),
                            ExperienceEndAllowAtual)]

EducationDates(d) ==
    [i \in 1..(2 * Len(d.education)) |->
        IF i % 2 = 1
        THEN normalize_date(GetOrEmpty(d.education[(i + 1) \div 2].start_date),
                            EducationAllowAtual)
        ELSE normalize_date(GetOrEmpty(d.education[i \div 2].end_date),
                            EducationAllowAtual)]

\* contact_information: None for an absent or empty value and when every
\* cleaned field is empty, else the three cleaned fields.
NoContact == [some |-> FALSE, email |-> None, phone |-> None, location |-> None]

NormalizedContact(c) ==
    LET n == [some |-> TRUE,
              email |-> clean_text(c.email, MAX_CONTACT_FIELD_LENGTH),
              phone |-> clean_text(c.phone, MAX_CONTACT_FIELD_LENGTH),
              location |-> clean_text(c.location, MAX_CONTACT_FIELD_LENGTH)]
    IN  IF ~c.some THEN NoContact
        ELSE IF n.email.some \/ n.phone.some \/ n.location.some THEN n
        ELSE NoContact

\* One pass of the experiences loop, given the two normalized dates.
NormalizedExperience(exp, start, end, job_text) ==
    Only({
        LET fallback_candidates ==
                <<Some(role), Some(company)>>
                \o [i \in 1..Len(bullets) |-> Some(bullets[i])] \o <<job_text>>
        IN  [company |-> Some(company),
             role |-> Some(role),
             location |-> clean_text(exp.location, MAX_LOCATION_LENGTH),
             start_date |-> Some(start),
             end_date |-> Some(end),
             bullets |-> bullets,
             tech_stack |-> IF tech_stack # <<>> THEN tech_stack
                            ELSE extract_tech_keywords(fallback_candidates)]
        : company \in {OrEmpty(clean_text(exp.company, MAX_NAME_LENGTH))},
          role \in {OrEmpty(clean_text(exp.role, MAX_JOB_TITLE_LENGTH))},
          bullets \in {CleanedItems(exp.bullets, MAX_BULLET_LENGTH)},
          tech_stack \in {Deduped(CleanedItems(exp.tech_stack, MAX_TECH_ITEM_LENGTH), {})}})

NormalizedEducation(edu, start, end) ==
    [institution |-> Some(OrEmpty(clean_text(edu.institution, MAX_EDU_FIELD_LENGTH))),
     degree |-> Some(OrEmpty(clean_text(edu.degree, MAX_EDU_FIELD_LENGTH))),
     start_date |-> Some(start),
     end_date |-> Some(end)]

NormalizedLanguage(lang) ==
    [name |-> Some(OrEmpty(clean_text(lang.name, MAX_LANGUAGE_NAME_LENGTH))),
     level |-> Some(OrEmpty(clean_text(lang.level, LevelMaxLength)))]

NormalizedLink(link) ==
    [label |-> Some(OrEmpty(clean_text(link.label, MAX_EXTERNAL_LABEL_LENGTH))),
     url |-> Some(OrEmpty(clean_text(link.url, MAX_EXTERNAL_URL_LENGTH)))]

\* normalize_resume_payload(data, job_text): the first normalize_date call
\* that raises ends the function with its ValueError.
normalize_resume_payload(d, job_text) ==
    Only({
        LET failed == {i \in 1..Len(dates) : ~dates[i].ok}
            expDates == SubSeq(dates, 1, 2 * Len(d.experiences))
            eduDates == SubSeq(dates, 2 * Len(d.experiences) + 1, Len(dates))
            links == [i \in 1..Len(d.external_links) |->
                         NormalizedLink(d.external_links[i])]
            Kept(l) == l.label.s # <<>> /\ l.url.s # <<>>
        IN  IF failed # {}
            THEN Raised(dates[CHOOSE i \in failed : \A j \in failed : i <= j].err)
            ELSE Returned(
              [name |-> Some(OrEmpty(clean_text(d.name, MAX_NAME_LENGTH))),
               job_title |-> Some(OrEmpty(clean_text(d.job_title, MAX_JOB_TITLE_LENGTH))),
               candidate_introduction |->
                   Some(OrEmpty(clean_text(d.candidate_introduction, MAX_INTRO_LENGTH))),
               contact_information |-> NormalizedContact(d.contact_information),
               experiences |->
                   [i \in 1..Len(d.experiences) |->
                       NormalizedExperience(d.experiences[i], expDates[2 * i - 1].value,
                                            expDates[2 * i].value, job_text)],
               education |->
                   [i \in 1..Len(d.education) |->
                       NormalizedEducation(d.education[i], eduDates[2 * i - 1].value,
                                           eduDates[2 * i].value)],
               languages |->
                   [i \in 1..Len(d.languages) |-> NormalizedLanguage(d.languages[i])],
               external_links |-> SelectSeq(links, Kept)])
        : dates \in {ExperienceDates(d) \o EducationDates(d)}})

\* Education.validate_date: re.match(r'^\d{4}-\d{2}$', v); $ also matches
\* before a newline that ends the str.
EducationDateValid(v) ==
    LET body == IF Len(v) = 8 /\ v[8] = "\n" THEN SubSeq(v, 1, 7) ELSE v
    IN  /\ Len(body) = 7
        /\ AllDigits(SubSeq(body, 1, 4))
        /\ body[5] = "-"
        /\ AllDigits(SubSeq(body, 6, 7))

\* ---- the payloads tried
TextX == <<"x">>

\* "x&amp;amp;x": a reference to an ampersand, itself escaped
TwiceEscaped == <<"x", "&", "a", "m", "p", ";", "a", "m", "p", ";", "x">>

DateTexts ==
    {None,
     Some(<<"2", "0", "2", "1", "-", "7">>),
     Some(<<"P", "r", "e", "s", "e", "n", "t">>),
     Some(<<"1", "3", "/", "2", "0", "2", "1">>)}

ExperienceValues ==
    {[company |-> Some(TextX), role |-> Some(<<"G", "o", " ", "x">>), location |-> loc,
      start_date |-> sd, end_date |-> ed, bullets |-> b, tech_stack |-> ts] :
        loc \in {None, Some(<<" ", "x", "\n">>)},
        sd \in DateTexts, ed \in DateTexts,
        b \in {<<TextX>>, <<<<>>, <<"<", "x", ">", "C", " ", "x">>>>},
        ts \in {<<>>, <<<<"G", "o">>, <<"g", "o">>, TextX>>, <<<<"emoji">>>>}}

EducationValues ==
    {[institution |-> Some(TextX), degree |-> None, start_date |-> sd, end_date |-> ed] :
        sd \in DateTexts, ed \in DateTexts}

ContactValues ==
    {NoContact,
     [some |-> TRUE, email |-> Some(<<" ">>), phone |-> None, location |-> None],
     [some |-> TRUE, email |-> Some(TextX), phone |-> None, location |-> Some(<<" ">>)]}

LinkValues ==
    {<<>>,
     <<[label |-> Some(TextX), url |-> None]>>,
     <<[label |-> Some(TextX), url |-> Some(TextX)]>>}

LanguageValues == {<<>>, <<[name |-> Some(TextX), level |-> Some(<<"C", "1">>)]>>}

BasePayload ==
    [name |-> Some(TextX), job_title |-> Some(TextX), candidate_introduction |-> None,
     contact_information |-> NoContact, experiences |-> <<>>, education |-> <<>>,
     languages |-> <<>>, external_links |-> <<>>]

ValidExperience ==
    [company |-> Some(TextX), role |-> Some(TextX), location |-> None,
     start_date |-> Some(<<"2", "0", "2", "1">>),
     end_date |-> Some(<<"a", "t", "u", "a", "l">>),
     bullets |-> <<TextX>>, tech_stack |-> <<>>]

\* Payloads that vary the name and one experience, and payloads that vary the
\* education entry, the contact information, the links and the languages.
ResumePayloads ==
    {[BasePayload EXCEPT !.name = n, !.experiences = e] :
        n \in {None, Some(TextX), Some(TwiceEscaped)},
        e \in {<<>>} \cup {<<x>> : x \in ExperienceValues}}
    \cup
    {[BasePayload EXCEPT !.experiences = <<ValidExperience>>, !.education = e,
                         !.contact_information = c, !.external_links = l,
                         !.languages = g] :
        e \in {<<>>} \cup {<<x>> : x \in EducationValues},
        c \in ContactValues, l \in LinkValues, g \in LanguageValues}

JobTexts == {None, Some(<<"C", " ", "x">>)}

InitResume ==
    /\ PipeInit /\ CtxInit /\ MetricsInit /\ ThreadInit /\ CallInit
    /\ apiKey = TRUE
    /\ data = NotCalled
    /\ cleaned_data = NotCalled
    /\ value = NotCalled
    /\ max_length = 0
    /\ allow_atual = FALSE
    /\ text = NotCalled
    /\ resume_data \in {[data |-> d, job_text |-> j] : d \in ResumePayloads, j \in JobTexts}
    /\ normalized = [once |-> NotCalled, twice |-> NotCalled]

\* normalized = normalize_resume_payload(data, job_text=job_text)
NormalizeResume ==
    /\ ~Called(normalized.once)
    /\ normalized' = [normalized EXCEPT
                        !.once = normalize_resume_payload(resume_data.data,
                                                          resume_data.job_text)]
    /\ UNCHANGED <<data, cleaned_data, value, max_length, allow_atual, text,
                   resume_data, pipeVars, ctxVars, metricVars, threadVars, callVars>>

\* normalize_resume_payload(normalized, job_text=job_text): a second pass over
\* what the first returned.
NormalizeAgain ==
    /\ normalized.once.ok
    /\ ~Called(normalized.twice)
    /\ normalized' = [normalized EXCEPT
                        !.twice = normalize_resume_payload(normalized.once.value,
                                                           resume_data.job_text)]
    /\ UNCHANGED <<data, cleaned_data, value, max_length, allow_atual, text,
                   resume_data, pipeVars, ctxVars, metricVars, threadVars, callVars>>

NextResume == NormalizeResume \/ NormalizeAgain

SpecResume == InitResume /\ [][NextResume]_vars

\* v is one of the sentinel words, in any case, once cleaned.
IsSentinelText(v) ==
    /\ v.some
    /\ clean_text(v, DateMaxLength).some
    /\ lower(clean_text(v, DateMaxLength).s) \in SentinelWords

\* v is a date of the form YYYY-MM.
IsYearMonth(v) ==
    /\ Len(v) = 7
    /\ AllDigits(SubSeq(v, 1, 4))
    /\ v[5] = "-"
    /\ AllDigits(SubSeq(v, 6, 7))
    /\ ToInt(SubSeq(v, 6, 7)) \in 1..12

DateError(r) == ~r.ok /\ r.err.kind = "ValueError"

\* C17 as stated: a payload with an experience whose start_date is a sentinel
\* word makes normalize_resume_payload fail with a date error, and no
\* experience of a normalized resume has the sentinel as its start_date.
C17_StartDateNeverSentinel ==
    Called(normalized.once)
    => /\ (\E i \in 1..Len(resume_data.data.experiences) :
              IsSentinelText(resume_data.data.experiences[i].start_date))
          => DateError(normalized.once)
       /\ normalized.once.ok
          => \A i \in 1..Len(normalized.once.value.experiences) :
                normalized.once.value.experiences[i].start_date.s # Atual

C19_Idempotent ==
    Called(normalized.twice)
    => (normalized.twice.ok /\ normalized.twice.value = normalized.once.value)

\* The positions of c whose item has not occurred before, up to case.
FirstSeen(c) == {p \in 1..Len(c) : \A q \in 1..(p - 1) : lower(c[q]) # lower(c[p])}

\* r is c with every item dropped that equals an earlier one up to case.
IsFirstSeenDedup(r, c) ==
    /\ Len(r) = Cardinality(FirstSeen(c))
    /\ \A p \in FirstSeen(c) : r[Cardinality({q \in FirstSeen(c) : q < p}) + 1] = c[p]

\* C27: in every normalized experience, when some tech_stack item survives
\* cleaning, tech_stack is the cleaned list de-duplicated up to case in first-seen
\* order (nothing of the job text in it); when none survives, tech_stack is what
\* extract_tech_keywords gives for the normalized role, company, bullets and the
\* job text, in that order.
C27_KeywordFallback ==
    (Called(normalized.once) /\ normalized.once.ok)
    => \A i \in 1..Len(resume_data.data.experiences) :
         LET exp == resume_data.data.experiences[i]
             out == normalized.once.value.experiences[i]
             surviving == CleanedItems(exp.tech_stack, MAX_TECH_ITEM_LENGTH)
         IN  IF surviving # <<>>
             THEN IsFirstSeenDedup(out.tech_stack, surviving)
             ELSE out.tech_stack =
                      extract_tech_keywords(
                          <<out.role, out.company>>
                          \o [b \in 1..Len(out.bullets) |-> Some(out.bullets[b])]
                          \o <<resume_data.job_text>>)

\* An experience none of whose tech_stack items survives cleaning, normalized
\* with a job text that names C: the fallback put C into tech_stack.
C27_Witness ==
    /\ Called(normalized.once) /\ normalized.once.ok
    /\ resume_data.job_text = Some(<<"C", " ", "x">>)
    /\ Len(resume_data.data.experiences) = 1
    /\ resume_data.data.experiences[1].tech_stack = <<<<"emoji">>>>
    /\ \E k \in 1..Len(normalized.once.value.experiences[1].tech_stack) :
           normalized.once.value.experiences[1].tech_stack[k] = <<"C">>

\* ============================================================== SpecSchema
\* core/schemas.py: the pydantic models, constructed from keyword arguments.
\* A str argument is Some(str), an argument that is not passed is None.

\* Literal["A2", "B1", "B2", "C1", "C2", "Nativo"]
LanguageLevels == {<<"A", "2">>, <<"B", "1">>, <<"B", "2">>, <<"C", "1">>, <<"C", "2">>, <<"N", "a", "t", "i", "v", "o">>}

\* str = Field(..., min_length=1): the argument is required and has at least
\* one character; the value is kept as passed.
MinLength1(o) == o.some /\ Len(o.s) >= 1

\* Experience.validate_start_date: re.match(r'^\d{4}-\d{2}$', v)
validate_start_date(v) == EducationDateValid(v)

\* Experience.validate_end_date: re.match(r'^\d{4}-\d{2}$|^Atual$', v); each
\* $ also matches before a newline that ends the str.
validate_end_date(v) ==
    EducationDateValid(v) \/ v = Atual \/ v = Atual \o <<"\n">>

\* List[str] = Field(..., min_length=1) and Experience.validate_bullets
validate_bullets(v) == Len(v) >= 1 /\ \A i \in 1..Len(v) : v[i] # <<>>

ExperienceFields == <<"company", "role", "start_date", "end_date", "location", "bullets">>

\* The fields of Experience that fail validation, in field order.
ExperienceErrors(e) ==
    LET Fails(f) ==
            CASE f = "company" -> ~MinLength1(e.company)
              [] f = "role" -> ~MinLength1(e.role)
              [] f = "start_date" -> ~(e.start_date.some /\ validate_start_date(e.start_date.s))
              [] f = "end_date" -> ~(e.end_date.some /\ validate_end_date(e.end_date.s))
              [] f = "location" -> ~MinLength1(e.location)
              [] f = "bullets" -> ~validate_bullets(e.bullets)
    IN  SelectSeq(ExperienceFields, Fails)

EducationFields == <<"institution", "degree", "start_date", "end_date">>

EducationErrors(e) ==
    LET Fails(f) ==
            CASE f = "institution" -> ~MinLength1(e.institution)
              [] f = "degree" -> ~MinLength1(e.degree)
              [] f = "start_date" -> ~(e.start_date.some /\ EducationDateValid(e.start_date.s))
              [] f = "end_date" -> ~(e.end_date.some /\ EducationDateValid(e.end_date.s))
    IN  SelectSeq(EducationFields, Fails)

LanguageFields == <<"name", "level">>

LanguageErrors(l) ==
    LET Fails(f) ==
            CASE f = "name" -> ~MinLength1(l.name)
              [] f = "level" -> ~(l.level.some /\ l.level.s \in LanguageLevels)
    IN  SelectSeq(LanguageFields, Fails)

ResumeFields ==
    <<"name", "job_title", "candidate_introduction", "experiences", "education", "languages">>

\* ResumeResponse(**normalized_data): keys that are not fields of the model
\* (contact_information, external_links) are ignored.
ResumeErrors(d) ==
    LET Fails(f) ==
            CASE f = "name" -> ~MinLength1(d.name)
              [] f = "job_title" -> ~MinLength1(d.job_title)
              [] f = "candidate_introduction" -> ~MinLength1(d.candidate_introduction)
              [] f = "experiences" ->
                    \/ Len(d.experiences) < 1
                    \/ \E i \in 1..Len(d.experiences) :
                          ExperienceErrors(d.experiences[i]) # <<>>
              [] f = "education" ->
                    \E i \in 1..Len(d.education) : EducationErrors(d.education[i]) # <<>>
              [] f = "languages" ->
                    \E i \in 1..Len(d.languages) : LanguageErrors(d.languages[i]) # <<>>
    IN  SelectSeq(ResumeFields, Fails)

\* Model(**fields): the instance, whose fields are the values passed, or
\* pydantic's ValidationError naming the fields that failed.
Construct(model, fields) ==
    LET errors == CASE model = "Experience" -> ExperienceErrors(fields)
                    [] model = "Education" -> EducationErrors(fields)
                    [] model = "Language" -> LanguageErrors(fields)
                    [] model = "ResumeResponse" -> ResumeErrors(fields)
    IN  IF errors = <<>> THEN Returned(fields)
        ELSE Raised(Exc("ValidationError", errors))

\* ---- the arguments tried
StartDates ==
    {None, Some(<<>>), Some(<<"2", "0", "2", "2", "-", "0", "1">>), Some(<<"2", "0", "2", "2", "-", "0", "1", "\n">>), Some(<<"2", "0", "2", "2", "0", "1">>),
     Some(<<"2", "0", "2", "2", "/", "1", "3">>), Some(<<"2", "2", "-", "0", "1">>), Some(<<"2", "0", "2", "2", "-", "1">>), Some(Atual)}

EndDates ==
    {Some(<<>>), Some(<<"2", "0", "2", "3", "-", "0", "6">>), Some(Atual), Some(<<"2", "0", "2", "3">>), Some(<<"2", "0", "2", "3", "/", "0", "0">>),
     Some(<<"A", "t", "u", "a", "l", "\n">>), Some(<<"a", "t", "u", "a", "l">>)}

Locations == {None, Some(<<" ", " ", " ">>), Some(<<"R", "e", "m", "o", "t", "e">>), Some(<<>>)}

ExperienceKwargs ==
    {[company |-> Some(<<"A", "c", "m", "e">>), role |-> Some(<<"E", "n", "g", "i", "n", "e", "e", "r">>), start_date |-> sd,
      end_date |-> ed, location |-> loc, bullets |-> b, tech_stack |-> <<>>] :
        sd \in StartDates, ed \in EndDates, loc \in Locations,
        b \in {<<TextX>>, <<TextX, <<>>>>, <<>>}}

EducationKwargs ==
    {[institution |-> Some(TextX), degree |-> Some(TextX), start_date |-> sd,
      end_date |-> ed] : sd \in StartDates, ed \in {Some(<<"2", "0", "2", "3", "-", "0", "6">>), Some(Atual)}}

LevelsTried ==
    LanguageLevels \cup {<<"N", "a", "t", "i", "v", "e">>, <<"n", "a", "t", "i", "v", "e">>, <<"n", "a", "t", "i", "v", "o">>, <<"C", "3">>, <<"a", "2">>, <<>>}

LanguageKwargs ==
    {[name |-> n, level |-> Some(l)] : n \in {Some(TextX), Some(<<>>)}, l \in LevelsTried}

\* A provider's resume that is complete and valid but for its language level.
GeneratedResume(level) ==
    [BasePayload EXCEPT
        !.candidate_introduction = Some(TextX),
        !.experiences = <<[ValidExperience EXCEPT !.location = Some(<<"R", "e", "m", "o", "t", "e">>)]>>,
        !.languages = <<[name |-> Some(TextX), level |-> Some(level)]>>]

ResumeKwargs ==
    {normalize_resume_payload(GeneratedResume(l), None).value : l \in LevelsTried \ {<<>>}}

InitSchema ==
    /\ PipeInit /\ CtxInit /\ MetricsInit /\ ThreadInit /\ FnInit
    /\ apiKey = TRUE
    /\ kwargs \in {[model |-> "Experience", fields |-> f] : f \in ExperienceKwargs}
                  \cup {[model |-> "Education", fields |-> f] : f \in EducationKwargs}
                  \cup {[model |-> "Language", fields |-> f] : f \in LanguageKwargs}
                  \cup {[model |-> "ResumeResponse", fields |-> f] : f \in ResumeKwargs}
    /\ instance = NotCalled
    /\ cover_data = NotCalled
    /\ cover_letter = NotCalled
    /\ candidates = NotCalled
    /\ found = NotCalled
    /\ gpc = <<>>
    /\ got = <<>>
    /\ built = {}
    /\ call = NotCalled
    /\ events = <<>>

\* Experience(**base), Language(...), ResumeResponse(**normalized_data)
ConstructModel ==
    /\ ~Called(instance)
    /\ instance' = Construct(kwargs.model, kwargs.fields)
    /\ UNCHANGED <<kwargs, cover_data, cover_letter, candidates, found, gpc, got, built,
                   call, events, pipeVars, ctxVars, metricVars, threadVars, fnVars>>

NextSchema == ConstructModel

SpecSchema == InitSchema /\ [][NextSchema]_vars

\* The levels the specification lists.
ListedLevels == {<<"A", "2">>, <<"B", "1">>, <<"B", "2">>, <<"C", "1">>, <<"C", "2">>, <<"N", "a", "t", "i", "v", "e">>}

\* C21 as stated: a language entry (with a name) is accepted exactly when its
\* level is one of A2, B1, B2, C1, C2, Native, and a generated resume whose
\* language level is "Native", otherwise valid, passes validation once normalized.
C21_LanguageLevels ==
    Called(instance)
    => /\ (kwargs.model = "Language" /\ MinLength1(kwargs.fields.name))
          => (instance.ok <=> kwargs.fields.level.s \in ListedLevels)
       /\ (kwargs.model = "ResumeResponse"
             /\ kwargs.fields.languages[1].level.s \in ListedLevels)
          => instance.ok

\* The experience is valid in every field but, possibly, its location.
ValidButLocation(e) ==
    /\ e.start_date = Some(<<"2", "0", "2", "2", "-", "0", "1">>) /\ e.end_date = Some(<<"2", "0", "2", "3", "-", "0", "6">>)
    /\ e.bullets = <<TextX>>

\* C22 as stated: an Experience constructed with a whitespace-only location is
\* accepted and has location None, and an Experience constructed without a
\* location is accepted (the field is optional).
C22_BlankLocationIsNone ==
    (Called(instance) /\ kwargs.model = "Experience" /\ ValidButLocation(kwargs.fields))
    => /\ kwargs.fields.location = Some(<<" ", " ", " ">>)
          => (instance.ok /\ instance.value.location = None)
       /\ kwargs.fields.location = None => instance.ok

\* Four digits, a hyphen, two digits.
CalendarMonthForm(v) ==
    /\ Len(v) = 7
    /\ AllDigits(SubSeq(v, 1, 4))
    /\ v[5] = "-"
    /\ AllDigits(SubSeq(v, 6, 7))

\* C23 as stated: Experience construction fails with a ValidationError naming
\* start_date for every start_date that is not four digits, hyphen, two
\* digits, and naming end_date for every end_date that is neither of that form
\* nor the sentinel; the stage function turns the ValidationError into an
\* exception that is not retried.
C23_DatesRejected ==
    (Called(instance) /\ kwargs.model = "Experience")
    => LET e == kwargs.fields
           Names(f) == ~instance.ok /\ \E i \in 1..Len(instance.err.msg) : instance.err.msg[i] = f
       IN  /\ ~(e.start_date.some /\ CalendarMonthForm(e.start_date.s)) => Names("start_date")
           /\ ~(CalendarMonthForm(e.end_date.s) \/ e.end_date.s = Atual) => Names("end_date")
           /\ ~instance.ok => ~IsRetryable(Raised(ExceptChain(2, instance.err)))

\* =============================================================== SpecCover
\* services/llm_client.py generate_cover_text, from cover_data = json.loads(content)
\* to the return.  A key of the provider's object that is absent or null is None.

\* len(cover_data["body"].strip()) < 50
MinBodyLength == 50

\* A table that answers every language in Portuguese, against which C24 is tested.
PortugueseOnly(language) == <<"P", "r", "e", "z", "a", "d", "o", "(", "a", ")", " ", "R", "e", "c", "r", "u", "t", "a", "d", "o", "r", "(", "a", ")", ",">>

\* greeting_template.get(language, greeting_template["pt-BR"])
greeting_template(language) ==
    IF language = "en-US" THEN <<"D", "e", "a", "r", " ", "H", "i", "r", "i", "n", "g", " ", "M", "a", "n", "a", "g", "e", "r", ",">>
    ELSE <<"P", "r", "e", "z", "a", "d", "o", "(", "a", ")", " ", "R", "e", "c", "r", "u", "t", "a", "d", "o", "r", "(", "a", ")", ",">>

\* signature_template.get(language, signature_template["pt-BR"])
signature_template(language, candidate_name) ==
    IF language = "en-US" THEN <<"S", "i", "n", "c", "e", "r", "e", "l", "y", ",", "\n">> \o candidate_name
    ELSE <<"A", "t", "e", "n", "c", "i", "o", "s", "a", "m", "e", "n", "t", "e", ",", "\n">> \o candidate_name

\* not cover_data.get(key): the key is absent, null or the empty str
Falsy(o) == ~o.some \/ o.s = <<>>

\* str.strip()
strip(s) == rstrip(lstrip(s))

\* The try block from the defaults on: the CoverLetterResponse, or the
\* exception raised inside the try.
CoverBody(d) ==
    LET greeting == IF Falsy(d.greeting) THEN Some(greeting_template(d.language))
                    ELSE d.greeting
        signature == IF Falsy(d.signature)
                     THEN Some(signature_template(d.language, d.candidate_name))
                     ELSE d.signature
    IN  IF Falsy(d.body) \/ Len(strip(d.body.s)) < MinBodyLength
        THEN Raised(Exc("LLMClientError", <<"Cover letter body is too short or empty">>))
        ELSE IF ~(MinLength1(greeting) /\ MinLength1(d.body) /\ MinLength1(signature))
        THEN Raised(Exc("ValidationError", <<"validation error">>))
        ELSE Returned([greeting |-> greeting.s, body |-> d.body.s, signature |-> signature.s])

\* What generate_cover_text gives for the parsed object d: the except clauses
\* turn an exception of the try block into the one that leaves the function.
CoverText(d) ==
    Only({IF body.ok THEN body ELSE Raised(ExceptChain(3, body.err)) : body \in {CoverBody(d)}})

\* ---- the provider objects tried
Filled(n, c) == [i \in 1..n |-> c]

Bodies ==
    {None, Some(<<>>), Some(Filled(MinBodyLength - 1, "x")), Some(Filled(MinBodyLength, "x")),
     Some(Filled(MinBodyLength, " ")),
     Some(<<" ">> \o Filled(MinBodyLength - 1, "x") \o <<"\n">>)}

Phrases == {None, Some(<<>>), Some(<<" ">>), Some(<<"H", "i", ",">>)}

CoverInputs ==
    {[greeting |-> g, body |-> b, signature |-> sg, language |-> l, candidate_name |-> n] :
        g \in Phrases, b \in Bodies, sg \in Phrases, l \in {"pt-BR", "en-US"},
        n \in {<<"A", "l", "i", "c", "e", " ", "S", "m", "i", "t", "h">>, TextX}}

InitCover ==
    /\ PipeInit /\ CtxInit /\ MetricsInit /\ ThreadInit /\ FnInit
    /\ apiKey = TRUE
    /\ kwargs = NotCalled
    /\ instance = NotCalled
    /\ cover_data \in CoverInputs
    /\ cover_letter = NotCalled
    /\ candidates = NotCalled
    /\ found = NotCalled
    /\ gpc = <<>>
    /\ got = <<>>
    /\ built = {}
    /\ call = NotCalled
    /\ events = <<>>

\* generate_cover_text once the provider has answered with a JSON object
GenerateCoverText ==
    /\ ~Called(cover_letter)
    /\ cover_letter' = CoverText(cover_data)
    /\ UNCHANGED <<kwargs, instance, cover_data, candidates, found, gpc, got, built,
                   call, events, pipeVars, ctxVars, metricVars, threadVars, fnVars>>

NextCover == GenerateCoverText

SpecCover == InitCover /\ [][NextCover]_vars

\* s ends with suffix.
EndsWith(s, suffix) ==
    Len(s) >= Len(suffix) /\ SubSeq(s, Len(s) - Len(suffix) + 1, Len(s)) = suffix

\* C24: a returned cover letter has the provider's greeting when that is a
\* non-empty str, else the default greeting of the request language
\* ("Prezado(a) Recrutador(a)," for pt-BR, "Dear Hiring Manager," for en-US);
\* it has the provider's signature when that is a non-empty str, else a
\* default that ends with the candidate name; its body is the provider's.
C24_CoverDefaults ==
    (Called(cover_letter) /\ cover_letter.ok)
    => LET d == cover_data
           c == cover_letter.value
       IN  /\ (d.greeting.some /\ d.greeting.s # <<>>) => c.greeting = d.greeting.s
           /\ (~d.greeting.some \/ d.greeting.s = <<>>)
              => c.greeting = (IF d.language = "pt-BR" THEN <<"P", "r", "e", "z", "a", "d", "o", "(", "a", ")", " ", "R", "e", "c", "r", "u", "t", "a", "d", "o", "r", "(", "a", ")", ",">>
                               ELSE <<"D", "e", "a", "r", " ", "H", "i", "r", "i", "n", "g", " ", "M", "a", "n", "a", "g", "e", "r", ",">>)
           /\ (d.signature.some /\ d.signature.s # <<>>) => c.signature = d.signature.s
           /\ (~d.signature.some \/ d.signature.s = <<>>)
              => /\ EndsWith(c.signature, d.candidate_name)
                 /\ Len(c.signature) > Len(d.candidate_name)
           /\ c.body = d.body.s

C24_Witness ==
    /\ Called(cover_letter) /\ cover_letter.ok
    /\ cover_data.language = "en-US"
    /\ cover_data.greeting = Some(<<>>) /\ cover_data.signature = None
    /\ cover_letter.value.greeting = <<"D", "e", "a", "r", " ", "H", "i", "r", "i", "n", "g", " ", "M", "a", "n", "a", "g", "e", "r", ",">>
    /\ cover_letter.value.signature = <<"S", "i", "n", "c", "e", "r", "e", "l", "y", ",", "\n", "A", "l", "i", "c", "e", " ", "S", "m", "i", "t", "h">>

\* ============================================================ SpecKeywords
\* core/normalization.py extract_tech_keywords(*texts), texts being Optional[str].

\* Largest number of arguments tried.
MaxTexts == 3

KeywordTexts ==
    {None, Some(<<>>), Some(TextX), Some(<<"G", "o">>), Some(<<"C">>), Some(<<"g", "o", " ", "C">>),
     Some(<<"C", ",", " ", "G", "o">>), Some(<<"G", "o", "x", " ", "c", "_">>)}

RECURSIVE TextLists(_)
TextLists(n) ==
    IF n = 0 THEN {<<>>}
    ELSE TextLists(n - 1) \cup {Append(l, t) : l \in TextLists(n - 1), t \in KeywordTexts}

InitKeywords ==
    /\ PipeInit /\ CtxInit /\ MetricsInit /\ ThreadInit /\ FnInit
    /\ apiKey = TRUE
    /\ kwargs = NotCalled
    /\ instance = NotCalled
    /\ cover_data = NotCalled
    /\ cover_letter = NotCalled
    /\ candidates \in {Returned(l) : l \in TextLists(MaxTexts)}
    /\ found = NotCalled
    /\ gpc = <<>>
    /\ got = <<>>
    /\ built = {}
    /\ call = NotCalled
    /\ events = <<>>

\* tech_stack = extract_tech_keywords(*fallback_candidates)
ExtractTechKeywords ==
    /\ ~Called(found)
    /\ found' = Returned(extract_tech_keywords(candidates.value))
    /\ UNCHANGED <<kwargs, instance, cover_data, cover_letter, candidates, gpc, got, built,
                   call, events, pipeVars, ctxVars, metricVars, threadVars, fnVars>>

NextKeywords == ExtractTechKeywords

SpecKeywords == InitKeywords /\ [][NextKeywords]_vars

\* keyword stands at position i of txt as a whole word, in any case.
OccursAt(keyword, txt, i) ==
    /\ i + Len(keyword) - 1 <= Len(txt)
    /\ lower(SubSeq(txt, i, i + Len(keyword) - 1)) = lower(keyword)
    /\ i = 1 \/ ~IsWordChar(txt[i - 1])
    /\ i + Len(keyword) > Len(txt) \/ ~IsWordChar(txt[i + Len(keyword)])

\* The places <<argument, position>> where keyword occurs in the arguments.
Occurrences(keyword, args) ==
    {<<a, i>> \in (1..Len(args)) \X (1..8) :
        args[a].some /\ i <= Len(args[a].s) /\ OccursAt(keyword, args[a].s, i)}

Earlier(p, q) == p[1] < q[1] \/ (p[1] = q[1] /\ p[2] < q[2])

\* keyword k occurs in the arguments, and first occurs before keyword l does.
FirstSeenBefore(k, l, args) ==
    \E p \in Occurrences(k, args) : \A q \in Occurrences(l, args) : Earlier(p, q)

\* C25 as stated: the result has at most 10 keywords, no two equal up to case,
\* each occurring in the arguments, and a keyword of the result stands before
\* another exactly when it is first seen earlier (earlier argument, or earlier
\* position in the same text).
C25_FirstSeenOrder ==
    Called(found)
    => LET r == found.value
       IN  /\ Len(r) <= 10
           /\ \A i, j \in 1..Len(r) : i # j => lower(r[i]) # lower(r[j])
           /\ \A i \in 1..Len(r) : Occurrences(r[i], candidates.value) # {}
           /\ \A i, j \in 1..Len(r) :
                 i < j => FirstSeenBefore(r[i], r[j], candidates.value)

\* ------------------------------------------------- telemetry of a request (Spec)
\* The stages of request r whose stage function has recorded its usage and
\* returned, or is about to return, a value.
SucceededStages(r) ==
    completed[r] \cup (IF hpc[r] = "attempted" /\ lastResult[r].ok THEN {stage[r]} ELSE {})

\* The step names in the llm_usage of r's request context.
UsageSteps(r) == DOMAIN GetLlmUsage(heap, r)

\* The logging middleware of r folds step durations into the aggregator in
\* this step: each stage r completed is counted once more, no other stage is.
FoldsCompletedOnly(r) ==
    (pc[r] = "log_resume" /\ pc'[r] = "rid_resume")
    => \A i \in 1..NumStages :
         step_stats'[StageNames[i]].count =
             step_stats[StageNames[i]].count + (IF i \in completed[r] THEN 1 ELSE 0)

\* C30: at every point the step names in a request's llm_usage are the names
\* of a prefix of the stage list, namely of the stages that have succeeded (no
\* failed or retried attempt has an entry), and what the logging middleware
\* folds into the metrics aggregator is one duration for each of them.
C30_UsageIsCompletedPrefix ==
    /\ [](\A r \in Requests :
            /\ UsageSteps(r) = {StageNames[i] : i \in SucceededStages(r)}
            /\ \E k \in 0..NumStages : SucceededStages(r) = 1..k)
    /\ [][\A r \in Requests : FoldsCompletedOnly(r)]_vars

\* A request that failed in generate_resume_json has been recorded as an error:
\* its llm_usage holds extract_payload alone, and nothing has been folded into
\* the aggregator for generate_resume_json.
C30_Witness ==
    \E r \in Requests :
        /\ pc[r] = "rid_resume"
        /\ recorded[r] = <<"error">>
        /\ completed[r] = {1}
        /\ UsageSteps(r) = {"extract_payload"}
        /\ step_stats["extract_payload"].count >= 1
        /\ step_stats["generate_resume_json"].count = 0

\* ===================================================================== SpecClient
\* services/llm_client.py, _get_openai_client (lines 46-64) called from several
\* threads of one process. The function takes no lock, so the threads interleave
\* between its statements: the test of line 55, the getenv of line 56, the
\* construction and assignment of line 62 and the read of line 64.
NumCallers == 2

MaxCalls == 2

Callers == 1..NumCallers

\* The n-th OpenAI object constructed in the process.
NewOpenAI(n) == "OpenAI@" \o ToString(n)

InitClient ==
    /\ PipeInit /\ CtxInit /\ MetricsInit /\ ThreadInit /\ FnInit
    /\ apiKey \in BOOLEAN
    /\ kwargs = NotCalled
    /\ instance = NotCalled
    /\ cover_data = NotCalled
    /\ cover_letter = NotCalled
    /\ candidates = NotCalled
    /\ found = NotCalled
    /\ gpc = [t \in Callers |-> "idle"]
    /\ got = [t \in Callers |-> <<>>]
    /\ built = {}
    /\ call = NotCalled
    /\ events = <<>>

ClientUnchanged ==
    UNCHANGED <<pc, loop, downstream, stage, attempt, hpc, lastResult, callResult, sleeps,
                hist, invoked, completed, recorded, apiKey, kwargs, instance, cover_data,
                cover_letter, candidates, found, call, events,
                ctxVars, metricVars, threadVars, fnVars>>

\* Thread t calls _get_openai_client().
CallGetClient(t) ==
    /\ gpc[t] = "idle"
    /\ Len(got[t]) < MaxCalls
    /\ gpc' = [gpc EXCEPT ![t] = "test"]
    /\ UNCHANGED <<client, got, built>>
    /\ ClientUnchanged

\* line 55: if _client is None:
TestClient(t) ==
    /\ gpc[t] = "test"
    /\ gpc' = [gpc EXCEPT ![t] = IF client = "None" THEN "getenv" ELSE "return"]
    /\ UNCHANGED <<client, got, built>>
    /\ ClientUnchanged

\* lines 56-61: api_key = os.getenv("OPENAI_API_KEY"); raise when it is not set.
GetEnv(t) ==
    /\ gpc[t] = "getenv"
    /\ IF apiKey
       THEN /\ gpc' = [gpc EXCEPT ![t] = "construct"]
            /\ UNCHANGED got
       ELSE /\ gpc' = [gpc EXCEPT ![t] = "idle"]
            /\ got' = [got EXCEPT ![t] = Append(@, Raised(Exc("LLMClientError",
                          <<"OPENAI_API_KEY environment variable is not set">>)))]
    /\ UNCHANGED <<client, built>>
    /\ ClientUnchanged

\* line 62: _client = OpenAI(api_key=api_key)
ConstructClient(t) ==
    /\ gpc[t] = "construct"
    /\ client' = NewOpenAI(Cardinality(built) + 1)
    /\ built' = built \cup {client'}
    /\ gpc' = [gpc EXCEPT ![t] = "return"]
    /\ UNCHANGED got
    /\ ClientUnchanged

\* line 64: return _client
ReturnClient(t) ==
    /\ gpc[t] = "return"
    /\ got' = [got EXCEPT ![t] = Append(@, Returned(client))]
    /\ gpc' = [gpc EXCEPT ![t] = "idle"]
    /\ UNCHANGED <<client, built>>
    /\ ClientUnchanged

NextClient ==
    \E t \in Callers :
        \/ CallGetClient(t)
        \/ TestClient(t)
        \/ GetEnv(t)
        \/ ConstructClient(t)
        \/ ReturnClient(t)

SpecClient == InitClient /\ [][NextClient]_vars

\* C26 as stated: whatever the interleaving of the calls, at most one OpenAI
\* instance is ever constructed and every call that returns gives that instance.
C26_ClientCreatedOnce ==
    /\ Cardinality(built) <= 1
    /\ \A t \in Callers : \A i \in 1..Len(got[t]) :
           got[t][i].ok => got[t][i].value \in built
    /\ \A t, u \in Callers : \A i \in 1..Len(got[t]) : \A j \in 1..Len(got[u]) :
           (got[t][i].ok /\ got[u][j].ok) => got[t][i].value = got[u][j].value

\* ====================================================================== SpecStage
\* services/llm_client.py: one call of a tenacity-wrapped stage function, followed
\* statement by statement through its log_event calls: the llm_call_started of
\* the function's first lines, the try block, the except clause that catches what
\* the try block raised, and tenacity's decision after the attempt.

\* What the provider's completion can hold, per stage; bad_shape is a JSON value
\* of the wrong shape (generate_resume_json: "experiences": 5, which
\* normalize_resume_payload cannot iterate; generate_cover_text: a JSON list,
\* which has no .get).
StageContents(s) == Contents(s) \cup (IF s \in {2, 3} THEN {"bad_shape"} ELSE {})

BadShapeError(s) ==
    IF s = 2 THEN Exc("TypeError", <<"'int' object is not iterable">>)
    ELSE Exc("AttributeError", <<"'list' object has no attribute 'get'">>)

\* What the try block gives: a value, or the exception raised inside it.
TryOutcome(s, c, key, o) ==
    IF o = "bad_shape" /\ ~GetClientFails(c, key) THEN Raised(BadShapeError(s))
    ELSE TryBody(s, c, key, o)

\* The log event that follows record_llm_usage on the success path.
SuccessEvent(s) ==
    CASE s = 1 -> "payload_extracted"
      [] s = 2 -> "resume_generated"
      [] s = 3 -> "cover_letter_generated"

\* error= of the llm_call_failed event logged by the except clause that catches e.
ErrorLabel(s, e) ==
    IF e.kind = "JSONDecodeError" THEN "invalid_json_response"
    ELSE IF e.kind = "ValidationError" /\ s \in {2, 3} THEN "schema_validation_error"
    ELSE IF e.kind \in ProviderErrors THEN "openai_api_error"
    ELSE "unexpected_error"

LogEvent(name, n, label) == [event |-> name, attempt |-> n, error |-> label]

InitStage ==
    /\ PipeInit /\ CtxInit /\ MetricsInit /\ ThreadInit /\ FnInit
    /\ apiKey \in BOOLEAN
    /\ kwargs = NotCalled
    /\ instance = NotCalled
    /\ cover_data = NotCalled
    /\ cover_letter = NotCalled
    /\ candidates = NotCalled
    /\ found = NotCalled
    /\ gpc = <<>>
    /\ got = <<>>
    /\ built = {}
    /\ call \in {[stage |-> s, attempt_number |-> 0, at |-> "call", raised |-> NoExc,
                  last |-> Pending, result |-> Pending] : s \in 1..NumStages}
    /\ events = <<>>

StageUnchanged ==
    UNCHANGED <<pc, loop, downstream, stage, attempt, hpc, lastResult, callResult, sleeps,
                hist, invoked, completed, recorded, apiKey, kwargs, instance, cover_data,
                cover_letter, candidates, found, gpc, got, built,
                ctxVars, metricVars, threadVars, fnVars>>

\* tenacity runs the function: start_time = ...; log_event("llm_call_started", ...)
StartAttempt ==
    /\ call.at = "call"
    /\ call' = [call EXCEPT !.attempt_number = @ + 1, !.at = "try",
                            !.raised = NoExc, !.last = Pending]
    /\ events' = Append(events, LogEvent("llm_call_started", call.attempt_number + 1, "None"))
    /\ UNCHANGED client
    /\ StageUnchanged

\* The try block, given the provider's outcome o.  On success record_llm_usage
\* logs llm_call_completed, the stage's own success event follows and the
\* function returns.  A ValueError of normalize_resume_payload is caught by the
\* inner except clause of generate_resume_json, which logs llm_call_failed and
\* raises LLMClientError from inside the outer try block.
TryBlock ==
    /\ call.at = "try"
    /\ \E o \in ProviderErrors \cup StageContents(call.stage) :
         LET body == TryOutcome(call.stage, client, apiKey, o)
             n == call.attempt_number
         IN  IF body.ok
             THEN /\ events' = events \o <<LogEvent("llm_call_completed", n, "None"),
                                           LogEvent(SuccessEvent(call.stage), n, "None")>>
                  /\ call' = [call EXCEPT !.at = "attempted", !.last = body]
             ELSE /\ events' = IF o = "bad_date" /\ ~GetClientFails(client, apiKey)
                               THEN Append(events, LogEvent("llm_call_failed", n,
                                                            "normalization_error"))
                               ELSE events
                  /\ call' = [call EXCEPT !.at = "except", !.raised = body.err]
    /\ client' = IF GetClientFails(client, apiKey) THEN client ELSE "OpenAI"
    /\ StageUnchanged

\* The except clause that catches what the try block raised: it logs
\* llm_call_failed and raises.
ExceptClause ==
    /\ call.at = "except"
    /\ events' = Append(events, LogEvent("llm_call_failed", call.attempt_number,
                                         ErrorLabel(call.stage, call.raised)))
    /\ call' = [call EXCEPT !.at = "attempted",
                            !.last = Raised(ExceptChain(call.stage, call.raised))]
    /\ UNCHANGED client
    /\ StageUnchanged

\* tenacity: a retryable exception with attempts left: sleep, then call again.
RetryCall ==
    /\ call.at = "attempted"
    /\ IsRetryable(call.last)
    /\ ~ShouldStop(call.attempt_number)
    /\ call' = [call EXCEPT !.at = "call"]
    /\ UNCHANGED <<client, events>>
    /\ StageUnchanged

\* tenacity: the call ends with the attempt's value, with an exception the retry
\* predicate rejects, or (attempts used up) with the last attempt's exception.
FinishCall ==
    /\ call.at = "attempted"
    /\ ~(IsRetryable(call.last) /\ ~ShouldStop(call.attempt_number))
    /\ call' = [call EXCEPT !.at = "done",
                            !.result = IF call.last.ok THEN call.last
                                       ELSE IF IsRetryable(call.last)
                                       THEN Raised(Reraise(call.last.err))
                                       ELSE call.last]
    /\ UNCHANGED <<client, events>>
    /\ StageUnchanged

NextStageCall == StartAttempt \/ TryBlock \/ ExceptClause \/ RetryCall \/ FinishCall

SpecStage == InitStage /\ [][NextStageCall]_vars

\* The attempts whose function execution has ended.
EndedAttempts ==
    {n \in 1..call.attempt_number :
        n < call.attempt_number \/ call.at \in {"attempted", "call", "done"}}

IsLifecycleEvent(e) ==
    e.event \in {"llm_call_started", "llm_call_completed", "llm_call_failed"}

\* The llm_call_* events attempt n logged, in order.
LifecycleOf(n) ==
    LET OfAttempt(e) == e.attempt = n /\ IsLifecycleEvent(e)
        logged == SelectSeq(events, OfAttempt)
    IN  [i \in 1..Len(logged) |-> logged[i].event]

\* C28 as stated: every attempt that has ended logged llm_call_started and then
\* exactly one terminal event, llm_call_completed or llm_call_failed, whatever
\* made the attempt fail.
C28_OneTerminalEvent ==
    \A n \in EndedAttempts :
        LifecycleOf(n) \in {<<"llm_call_started", "llm_call_completed">>,
                            <<"llm_call_started", "llm_call_failed">>}

\* What may leave a stage function: a value or LLMClientError at any attempt, a
\* provider error of the retried kinds.
MayLeaveStage(res) ==
    res.ok \/ res.err.kind = "LLMClientError" \/ res.err.kind \in RetryableKinds

====
